---- MODULE Spec2Model ----
(***************************************************************************)
(* Model of useRemoteThreadLiveConnection: the hook that keeps one         *)
(* thread-live subscription in step with selection, focus/visibility and   *)
(* the app-server event stream.                                            *)
(*                                                                         *)
(* Representation.                                                         *)
(*  - null is the empty sequence for optional objects (activeWorkspace,    *)
(*    a subscription key, the in-flight record) and "" for optional ids:   *)
(*    the code tests ids only for truthiness, so null and "" take the same *)
(*    branch everywhere, and extractThreadId never returns "".             *)
(*  - a subscription key `${workspaceId}:${threadId}` is the sequence of   *)
(*    its ":"-separated segments; ids are drawn from sets without ":".     *)
(*  - a method name is the sequence of its "/"-separated segments.         *)
(*  - one action is one run-to-completion job of the event loop: a handler *)
(*    together with every call it makes up to the next await, or the       *)
(*    resumption of one attempt from one await up to the next.             *)
(*  - a reconnectPromise is identified by the sequence number its closure  *)
(*    took at its start (each start takes a fresh one); a settled promise  *)
(*    leaves `attempts` and is reported in `last.settled`.                 *)
(***************************************************************************)
EXTENDS Integers, Sequences, FiniteSets, TLC

\* ------------------------------------------------------------------ bounds
MaxInFlight == 2
MaxSequence == 3
MaxSequenceOneKey == 4
MaxTicks == 2
MaxUnsubscribing == 2
MaxDetaching == 2

\* --------------------------------------------------------------- constants
SELF_DETACH_IGNORE_WINDOW_MS == 10000

\* ------------------------------------------------------------------ values
Workspaces == {"ws1", "ws2"}
ActiveWorkspaces == {"ws1"}
Threads == {"t1", "t2"}
AllKeys == {<<w, t>> : w \in Workspaces, t \in Threads}
NoKey == <<>>

\* ----------------------------------------------------------- pure helpers
keyForThread(workspaceId, threadId) == <<workspaceId, threadId>>

\* indexOf(":") <= 0: no separator, or an empty first segment;
\* indexOf(":") >= length - 1: nothing after the first separator.
splitKey(key) ==
  IF Len(key) < 2 \/ key[1] = "" \/ (Len(key) = 2 /\ key[2] = "")
  THEN <<>>
  ELSE <<[workspaceId |-> key[1], threadId |-> key[2]]>>

isItemOrTurnMethod(method) ==
  /\ Len(method) > 0
  /\ method[1] \in {"item", "turn"}

isThreadActivityMethod(method) ==
  \/ (Len(method) >= 2 /\ method[1] = "item")
  \/ (Len(method) >= 2 /\ method[1] = "turn")
  \/ method = <<"error">>
  \/ method = <<"thread", "tokenUsage", "updated">>

\* String.prototype.trim over the raw values the events carry.
Trim(raw) ==
  CASE raw = " " -> ""
    [] raw = " t1 " -> "t1"
    [] OTHER -> raw

\* a ?? b ?? "" : absent fields are the empty sequence.
Coalesce(a, b) == IF a # <<>> THEN a[1] ELSE IF b # <<>> THEN b[1] ELSE ""

extractThreadId(method, params) ==
  LET turn == IF params.turn # <<>> THEN params.turn[1]
              ELSE [threadId |-> <<>>, thread_id |-> <<>>]
      fromTurn == Trim(Coalesce(turn.threadId, turn.thread_id))
      direct == Trim(Coalesce(params.threadId, params.thread_id))
  IN IF /\ method \in {<<"turn", "started">>, <<"turn", "completed">>, <<"error">>}
        /\ fromTurn # ""
     THEN fromTurn
     ELSE direct

\* ------------------------------------------------------------------- state
VARIABLES
  backendMode,                \* prop / backendModeRef
  activeWorkspace,            \* prop / activeWorkspaceRef: <<>> or <<[id, name, connected]>>
  activeThreadId,             \* prop / activeThreadIdRef: "" when none
  hasReconnectWorkspace,      \* whether the reconnectWorkspace prop is provided
  connectionState,            \* connectionStateRef
  activeSubscriptionKey,      \* activeSubscriptionKeyRef
  desiredSubscriptionKey,     \* desiredSubscriptionKeyRef
  ignoreDetachedEventsUntil,  \* ignoreDetachedEventsUntilRef: key -> expiry, 0 when absent
  inFlightReconnect,          \* inFlightReconnectRef: <<>> or <<[key, sequence, promise]>>
  reconnectSequence,          \* reconnectSequenceRef
  attempts,                   \* the unsettled reconnectPromise closures, by sequence
  calls,                      \* collaborator calls issued by the last job, in order
  unsubscribing,              \* keys of the unsubscribeByKey promises not yet settled
  subscribed,                 \* backend: keys with a completed subscribe and no unsubscribe since
  detaching,                  \* backend: detached notifications not yet delivered, in order
  visible,                    \* document.visibilityState = "visible"
  focused,                    \* document.hasFocus()
  now,                        \* Date.now()
  mounted,                    \* "no" before the effects ran, "yes", "gone" after cleanup
  last                        \* the job that produced this state

vars == <<backendMode, activeWorkspace, activeThreadId, hasReconnectWorkspace,
          connectionState, activeSubscriptionKey, desiredSubscriptionKey,
          ignoreDetachedEventsUntil, inFlightReconnect, reconnectSequence,
          attempts, calls, unsubscribing, subscribed, detaching,
          visible, focused, now, mounted, last>>

refVars == <<connectionState, activeSubscriptionKey, desiredSubscriptionKey,
             ignoreDetachedEventsUntil, inFlightReconnect, reconnectSequence>>

propVars == <<backendMode, activeWorkspace, activeThreadId, hasReconnectWorkspace>>

Props == [backendMode |-> backendMode, activeWorkspace |-> activeWorkspace,
          activeThreadId |-> activeThreadId,
          hasReconnectWorkspace |-> hasReconnectWorkspace]


\* activeWorkspace?.id ?? null and activeWorkspace?.connected ?? false
WorkspaceId(p) == IF p.activeWorkspace = <<>> THEN "" ELSE p.activeWorkspace[1].id
WorkspaceConnected(p) ==
  IF p.activeWorkspace = <<>> THEN FALSE ELSE p.activeWorkspace[1].connected

\* The useState initializer of connectionState.
InitialConnectionState(p) ==
  IF p.backendMode # "remote"
  THEN (IF WorkspaceConnected(p) THEN "live" ELSE "disconnected")
  ELSE IF ~WorkspaceConnected(p) THEN "disconnected" ELSE "polling"

NoCalls == [subscribe |-> <<>>, unsubscribe |-> <<>>, refresh |-> <<>>,
            reconnectWorkspace |-> <<>>]

NoJob == [op |-> "init", method |-> <<>>, workspaceId |-> "", threadId |-> "",
          runResume |-> FALSE, ok |-> TRUE, attempt |-> 0,
          call |-> "none", suppressed |-> FALSE, settled |-> <<>>,
          wasActive |-> FALSE, window |-> "none", origin |-> "none"]

\* The coordinator's mutable cells at the start of a job, threaded through the
\* handlers; call, attempt, suppressed and settled report what the job did.
Coord == [connectionState |-> connectionState,
          activeSubscriptionKey |-> activeSubscriptionKey,
          desiredSubscriptionKey |-> desiredSubscriptionKey,
          ignoreDetachedEventsUntil |-> ignoreDetachedEventsUntil,
          inFlightReconnect |-> inFlightReconnect,
          reconnectSequence |-> reconnectSequence,
          attempts |-> attempts,
          calls |-> NoCalls,
          unsubscribing |-> unsubscribing,
          subscribed |-> subscribed,
          detaching |-> detaching,
          call |-> "none",
          attempt |-> 0,
          suppressed |-> FALSE,
          settled |-> <<>>]

\* The state after the first render, before its effects ran. A scope sc names
\* the values the props and the inputs are drawn from.
InitOver(sc) ==
  /\ backendMode \in sc.modes
  /\ activeWorkspace \in sc.workspaces
  /\ activeThreadId \in sc.threads
  /\ hasReconnectWorkspace \in sc.sessionReconnect
  /\ connectionState = InitialConnectionState(Props)
  /\ activeSubscriptionKey = NoKey
  /\ desiredSubscriptionKey = NoKey
  /\ ignoreDetachedEventsUntil = [k \in AllKeys |-> 0]
  /\ inFlightReconnect = <<>>
  /\ reconnectSequence = 0
  /\ attempts = <<>>
  /\ calls = NoCalls
  /\ unsubscribing = <<>>
  /\ subscribed = {}
  /\ detaching = <<>>
  /\ visible \in sc.visible
  /\ focused \in sc.focused
  /\ now = 0
  /\ mounted = "no"
  /\ last = NoJob

\* ------------------------------------------------------ connection state
\* setState: the early return on an equal value changes nothing observable.
setState(s, next) == [s EXCEPT !.connectionState = next]

reconcileAsRemote(s, p) ==
  setState(s, IF WorkspaceConnected(p) THEN "polling" ELSE "disconnected")

reconcileDisconnectedState(s, p) ==
  IF p.backendMode # "remote"
  THEN setState(s, IF WorkspaceConnected(p) THEN "live" ELSE "disconnected")
  ELSE IF ~WorkspaceConnected(p)
       THEN setState(s, "disconnected")
       ELSE setState(s, "polling")

\* unsubscribeByKey: the call is issued synchronously; its outcome is
\* awaited inside the async function, whose promise the callers discard.
unsubscribeByKey(s, key) ==
  LET parsed == splitKey(key)
  IN IF parsed = <<>>
     THEN s
     ELSE [s EXCEPT !.calls.unsubscribe =
                       Append(@, keyForThread(parsed[1].workspaceId,
                                              parsed[1].threadId)),
                    !.unsubscribing = Append(@, key)]

unsubscribeByKeyRestoring(s, key, ok) ==
  IF ok THEN s ELSE [s EXCEPT !.activeSubscriptionKey = key]

\* the rest of unsubscribeByKey after its await: .catch(() => {}) turns a
\* rejection into a fulfilment and the function returns
unsubscribeByKeySettled(s, key, ok) == s

\* ------------------------------------------------------------------ backend
\* The backend behind threadLiveSubscribe / threadLiveUnsubscribe: the set of
\* keys with a completed subscribe not followed by an unsubscribe, and the
\* detached notifications it has sent that the listener has not yet received.
\* An unsubscribe of a subscribed key ends the subscription and sends one
\* detached notification (origin "self"); the backend may also drop a
\* subscription on its own (origin "backend").
threadLiveSubscribed(s, key) == [s EXCEPT !.subscribed = @ \cup {key}]

threadLiveUnsubscribed(s, key) ==
  IF key \in s.subscribed
  THEN [s EXCEPT !.subscribed = @ \ {key},
                 !.detaching = Append(@, [key |-> key, origin |-> "self"])]
  ELSE s

threadLiveDropped(s, key) ==
  [s EXCEPT !.subscribed = @ \ {key},
            !.detaching = Append(@, [key |-> key, origin |-> "backend"])]

\* the call an attempt awaits (named by its pc) or a discarded unsubscribe
\* settles: a rejected call has changed nothing at the backend
CallSettled(s, call, key, ok) ==
  IF ~ok THEN s
  ELSE IF call = "subscribe" THEN threadLiveSubscribed(s, key)
  ELSE IF call \in {"dedupeUnsubscribe", "cleanupUnsubscribe", "unsubscribe"}
       THEN threadLiveUnsubscribed(s, key)
  ELSE s

\* --------------------------------------------------- reconnection attempt
\* The fields after result are history fields. blurredAt: the await the attempt
\* was suspended on at the latest blur or hide since its start ("" if none).
\* fresh: the attempt was started while an older attempt for the same key was
\* in flight with an outdated sequence. overtaken: an attempt for another key
\* was started while this one awaited its subscribe call. failed: a promise
\* the attempt awaited rejected.
NewAttempt(workspaceId, threadId, runResume, sequence) ==
  [key |-> keyForThread(workspaceId, threadId),
   workspaceId |-> workspaceId, threadId |-> threadId,
   runResume |-> runResume, sequence |-> sequence,
   pc |-> "start", result |-> "pending",
   sessionReconnects |-> 0, refreshes |-> 0, subscribes |-> 0,
   unsubscribes |-> 0, wroteActive |-> FALSE, clearedActive |-> FALSE,
   staleAtSubscribe |-> FALSE, blurredAt |-> "",
   fresh |-> FALSE, overtaken |-> FALSE, failed |-> FALSE]

neverStale(s, i) == FALSE

IsStale(s, i) == s.attempts[i].sequence # s.reconnectSequence

\* variant: the promise settles and the in-flight record is left in place
SettleKeepingRecord(s, i, result) ==
  LET a == [s.attempts[i] EXCEPT !.pc = "done", !.result = result]
  IN [s EXCEPT !.attempts = [j \in DOMAIN s.attempts \ {i} |-> s.attempts[j]],
               !.settled = <<a>>]

\* The promise settles and its finally callback clears the in-flight record
\* if it still names this promise.
Settle(s, i, result) ==
  LET a == [s.attempts[i] EXCEPT !.pc = "done", !.result = result]
      s1 == [s EXCEPT !.attempts = [j \in DOMAIN s.attempts \ {i} |-> s.attempts[j]],
                      !.settled = <<a>>]
  IN IF s1.inFlightReconnect # <<>> /\ s1.inFlightReconnect[1].promise = i
     THEN [s1 EXCEPT !.inFlightReconnect = <<>>]
     ELSE s1

CatchAndReconcile(s, p, i) ==
  Settle(reconcileDisconnectedState(s, p), i, "false")

\* catch { if (sequence === current) reconcile; return false }
Catch(s, p, i) ==
  Settle(IF IsStale(s, i) THEN s ELSE reconcileDisconnectedState(s, p), i, "false")

\* await threadLiveSubscribe(workspaceId, threadId)
IssueSubscribe(s, i) ==
  [s EXCEPT !.calls.subscribe = Append(@, s.attempts[i].key),
            !.attempts[i].subscribes = @ + 1,
            !.attempts[i].staleAtSubscribe = IsStale(s, i),
            !.attempts[i].pc = "subscribe"]

AfterRefreshWithoutEntry(s, p, i) ==
  LET a == s.attempts[i]
  IN IF IsStale(s, i)
     THEN Settle(s, i, "false")
     ELSE IF s.activeSubscriptionKey = a.key
          THEN [s EXCEPT !.calls.unsubscribe = Append(@, a.key),
                         !.attempts[i].unsubscribes = @ + 1,
                         !.attempts[i].pc = "dedupeUnsubscribe"]
          ELSE IssueSubscribe(s, i)

AfterRefreshUnchecked(s, p, i) == IssueSubscribe(s, i)

\* after the refresh await: staleness check, then dedupe-unsubscribe or subscribe
AfterRefresh(s, p, i) ==
  LET a == s.attempts[i]
  IN IF IsStale(s, i)
     THEN Settle(s, i, "false")
     ELSE IF s.activeSubscriptionKey = a.key
          THEN [s EXCEPT !.ignoreDetachedEventsUntil[a.key] =
                            now + SELF_DETACH_IGNORE_WINDOW_MS,
                         !.calls.unsubscribe = Append(@, a.key),
                         !.attempts[i].unsubscribes = @ + 1,
                         !.attempts[i].pc = "dedupeUnsubscribe"]
          ELSE IssueSubscribe(s, i)

AfterSessionReconnectAlwaysResuming(s, p, i) ==
  IF IsStale(s, i)
  THEN Settle(s, i, "false")
  ELSE [s EXCEPT !.calls.refresh = Append(@, s.attempts[i].key),
                 !.attempts[i].refreshes = @ + 1,
                 !.attempts[i].pc = "refresh"]

AfterSessionReconnectWithoutResume(s, p, i) ==
  IF IsStale(s, i) THEN Settle(s, i, "false") ELSE AfterRefresh(s, p, i)

\* after the session-reconnect await: staleness check, then refresh
AfterSessionReconnect(s, p, i) ==
  LET a == s.attempts[i]
  IN IF IsStale(s, i)
     THEN Settle(s, i, "false")
     ELSE IF a.runResume
          THEN [s EXCEPT !.calls.refresh = Append(@, a.key),
                         !.attempts[i].refreshes = @ + 1,
                         !.attempts[i].pc = "refresh"]
          ELSE AfterRefresh(s, p, i)

StartAttemptReconnectingAlways(s, p, i) ==
  LET a == s.attempts[i]
      s1 == [s EXCEPT !.desiredSubscriptionKey = a.key]
  IN IF /\ p.activeWorkspace # <<>>
        /\ p.hasReconnectWorkspace
        /\ p.activeWorkspace[1].id = a.workspaceId
     THEN [s1 EXCEPT !.calls.reconnectWorkspace = Append(@, a.workspaceId),
                     !.attempts[i].sessionReconnects = @ + 1,
                     !.attempts[i].pc = "reconnectWorkspace"]
     ELSE AfterSessionReconnect(s1, p, i)

\* the body of the async closure up to its first await
StartAttempt(s, p, i) ==
  LET a == s.attempts[i]
      s1 == [s EXCEPT !.desiredSubscriptionKey = a.key]
  IN IF /\ p.activeWorkspace # <<>>
        /\ ~p.activeWorkspace[1].connected
        /\ p.hasReconnectWorkspace
        /\ p.activeWorkspace[1].id = a.workspaceId
     THEN [s1 EXCEPT !.calls.reconnectWorkspace = Append(@, a.workspaceId),
                     !.attempts[i].sessionReconnects = @ + 1,
                     !.attempts[i].pc = "reconnectWorkspace"]
     ELSE AfterSessionReconnect(s1, p, i)

AfterDedupeUnsubscribeRedesiring(s, i) ==
  IssueSubscribe([s EXCEPT !.activeSubscriptionKey = NoKey,
                           !.desiredSubscriptionKey = s.attempts[i].key,
                           !.attempts[i].clearedActive = TRUE], i)

\* after the dedupe unsubscribe (its failure is swallowed)
AfterDedupeUnsubscribe(s, i) ==
  IssueSubscribe([s EXCEPT !.activeSubscriptionKey = NoKey,
                           !.attempts[i].clearedActive = TRUE], i)

stillDesired(s, key) == FALSE

\* if (desiredSubscriptionKeyRef.current !== targetKey)
noLongerDesired(s, key) == s.desiredSubscriptionKey # key

AfterSubscribeUnchecked(s, i) ==
  Settle(setState([s EXCEPT !.activeSubscriptionKey = s.attempts[i].key,
                            !.attempts[i].wroteActive = TRUE],
                  "polling"), i, "true")

\* after threadLiveSubscribe resolved
AfterSubscribe(s, i) ==
  LET a == s.attempts[i]
  IN IF IsStale(s, i)
     THEN IF noLongerDesired(s, a.key)
          THEN [s EXCEPT !.calls.unsubscribe = Append(@, a.key),
                         !.attempts[i].unsubscribes = @ + 1,
                         !.attempts[i].pc = "cleanupUnsubscribe"]
          ELSE Settle(s, i, "false")
     ELSE Settle(setState([s EXCEPT !.activeSubscriptionKey = a.key,
                                    !.attempts[i].wroteActive = TRUE],
                          "polling"), i, "true")

\* One attempt resumes from the await it is suspended on; ok = the awaited
\* promise fulfilled, ~ok = it rejected.
ResumeAttempt(s, p, i, ok) ==
  LET pc == s.attempts[i].pc
  IN CASE pc = "reconnectWorkspace" ->
            IF ok THEN AfterSessionReconnect(s, p, i) ELSE Catch(s, p, i)
       [] pc = "refresh" ->
            IF ok THEN AfterRefresh(s, p, i) ELSE Catch(s, p, i)
       [] pc = "dedupeUnsubscribe" -> AfterDedupeUnsubscribe(s, i)
       [] pc = "subscribe" ->
            IF ok THEN AfterSubscribe(s, i) ELSE Catch(s, p, i)
       [] pc = "cleanupUnsubscribe" -> Settle(s, i, "false")


anyInFlightSequence(inFlight, sequence) == TRUE

\* if (inFlightReconnect?.key === targetKey)
\*   if (inFlightReconnect.sequence === reconnectSequenceRef.current)
sameInFlightSequence(inFlight, sequence) ==
  inFlight[1].sequence = sequence

reconnectLive(s, p, workspaceId, threadId, runResume) ==
  IF \/ p.backendMode # "remote"
     \/ workspaceId = ""
     \/ threadId = ""
     \/ p.activeWorkspace = <<>>
  THEN [reconcileDisconnectedState(s, p) EXCEPT !.call = "rejected"]
  ELSE
    LET targetKey == keyForThread(workspaceId, threadId)
        s1 == [s EXCEPT !.desiredSubscriptionKey = targetKey]
        inFlight == s1.inFlightReconnect
        sameKey == inFlight # <<>> /\ inFlight[1].key = targetKey
    IN IF sameKey /\ sameInFlightSequence(inFlight, s1.reconnectSequence)
       THEN [s1 EXCEPT !.call = "coalesced", !.attempt = inFlight[1].promise]
       ELSE
         LET s2 == IF sameKey THEN [s1 EXCEPT !.inFlightReconnect = <<>>] ELSE s1
             sequence == s2.reconnectSequence + 1
             s3 == setState(
                     [s2 EXCEPT !.reconnectSequence = sequence,
                                !.attempts = @ @@ (sequence :>
                                   NewAttempt(workspaceId, threadId, runResume,
                                              sequence))],
                     IF WorkspaceConnected(p) THEN "polling" ELSE "disconnected")
             s4 == StartAttempt(s3, p, sequence)
         IN [s4 EXCEPT !.inFlightReconnect =
                          <<[key |-> targetKey, sequence |-> s4.reconnectSequence,
                             promise |-> sequence]>>,
                       !.call = "started", !.attempt = sequence]

\* ------------------------------------------------------- lifecycle binder
\* The effect keyed on (activeThreadId, activeWorkspaceConnected,
\* activeWorkspaceId, backendMode).
replacedByAnotherKey(previousKey, nextKey) ==
  previousKey # NoKey /\ nextKey # NoKey /\ previousKey # nextKey

\* if (previousKey && previousKey !== nextKey)
noLongerSelected(previousKey, nextKey) ==
  previousKey # NoKey /\ previousKey # nextKey

subscribedAlready(s, nextKey, connected) == s.activeSubscriptionKey = nextKey

\* if (activeSubscriptionKeyRef.current === nextKey &&
\*     connectionStateRef.current !== "disconnected" && activeWorkspaceConnected)
alreadySatisfied(s, nextKey, connected) ==
  /\ s.activeSubscriptionKey = nextKey
  /\ s.connectionState # "disconnected"
  /\ connected

selectionEffect(s, p, isVisible) ==
  LET nextKey == IF p.backendMode = "remote" /\ WorkspaceId(p) # ""
                    /\ p.activeThreadId # ""
                 THEN keyForThread(WorkspaceId(p), p.activeThreadId)
                 ELSE NoKey
      s1 == [s EXCEPT !.desiredSubscriptionKey = nextKey]
      previousKey == s1.activeSubscriptionKey
      s2 == IF noLongerSelected(previousKey, nextKey)
            THEN unsubscribeByKey([s1 EXCEPT !.activeSubscriptionKey = NoKey],
                                  previousKey)
            ELSE s1
      parsed == splitKey(nextKey)
  IN IF nextKey = NoKey THEN reconcileDisconnectedState(s2, p)
     ELSE IF ~isVisible THEN reconcileDisconnectedState(s2, p)
     ELSE IF parsed = <<>> THEN reconcileDisconnectedState(s2, p)
     ELSE IF alreadySatisfied(s2, nextKey, WorkspaceConnected(p))
          THEN s2
          ELSE reconnectLive(s2, p, parsed[1].workspaceId, parsed[1].threadId, TRUE)

reconnectDesiredThread(s, p) ==
  IF WorkspaceId(p) = "" \/ p.activeThreadId = "" \/ s.desiredSubscriptionKey = NoKey
  THEN s
  ELSE reconnectLive(s, p, WorkspaceId(p), p.activeThreadId, TRUE)

\* const workspaceId = activeWorkspaceRef.current?.id ?? null;
\* const threadId = activeThreadIdRef.current;
reconnectActiveThread(s, p) ==
  IF WorkspaceId(p) = "" \/ p.activeThreadId = ""
  THEN s
  ELSE reconnectLive(s, p, WorkspaceId(p), p.activeThreadId, TRUE)

handleFocus(s, p, isVisible) ==
  IF ~isVisible THEN s ELSE reconnectActiveThread(s, p)

handleBlurWithoutCancel(s, p) ==
  LET s1 == [s EXCEPT !.desiredSubscriptionKey = NoKey]
      currentKey == s1.activeSubscriptionKey
  IN IF currentKey = NoKey
     THEN s1
     ELSE reconcileDisconnectedState(
            unsubscribeByKey([s1 EXCEPT !.activeSubscriptionKey = NoKey], currentKey),
            p)

handleBlur(s, p) ==
  LET s1 == [s EXCEPT !.reconnectSequence = @ + 1,
                      !.desiredSubscriptionKey = NoKey]
      currentKey == s1.activeSubscriptionKey
  IN IF currentKey = NoKey
     THEN s1
     ELSE reconcileDisconnectedState(
            unsubscribeByKey([s1 EXCEPT !.activeSubscriptionKey = NoKey], currentKey),
            p)

alwaysReassert(s, p, isVisible) == reconnectActiveThread(s, p)

handleVisibilityChange(s, p, isVisible) ==
  IF isVisible THEN reconnectActiveThread(s, p) ELSE handleBlur(s, p)

\* cleanup of the lifecycle effect
lifecycleCleanup(s) ==
  LET s1 == [s EXCEPT !.desiredSubscriptionKey = NoKey,
                      !.ignoreDetachedEventsUntil = [k \in AllKeys |-> 0]]
      currentKey == s1.activeSubscriptionKey
  IN IF currentKey # NoKey
     THEN unsubscribeByKey([s1 EXCEPT !.activeSubscriptionKey = NoKey], currentKey)
     ELSE s1

\* ------------------------------------------------------------ event router
\* the listener passed to subscribeAppServerEvents; method = <<>> models a
\* missing raw method
untilConsumed(ignoreDetachedUntil, t) == ignoreDetachedUntil > 0

beforeExpiry(ignoreDetachedUntil, t) ==
  ignoreDetachedUntil > 0 /\ ignoreDetachedUntil > t

\* if (ignoreDetachedUntil > 0 && ignoreDetachedUntil >= Date.now())
withinIgnoreWindow(ignoreDetachedUntil, t) ==
  ignoreDetachedUntil > 0 /\ ignoreDetachedUntil >= t

anywhere(isVisible, isFocused) == TRUE

\* if (isDocumentVisible() && isWindowFocused())
inForeground(isVisible, isFocused) == isVisible /\ isFocused

fromAnyWorkspace(event, activeWorkspaceId) == FALSE

\* if (event.workspace_id !== activeWorkspaceId)
fromOtherWorkspace(event, activeWorkspaceId) ==
  event.workspace_id # activeWorkspaceId

isSessionConnectedAnywhere(method, isVisible) == method = <<"codex", "connected">>

\* if (method === "codex/connected" && isDocumentVisible())
isSessionConnectedWhileVisible(method, isVisible) ==
  method = <<"codex", "connected">> /\ isVisible

onLiveAttachedIfDesired(s, key) ==
  IF s.desiredSubscriptionKey = key
  THEN setState([s EXCEPT !.activeSubscriptionKey = key], "polling")
  ELSE s

\* activeSubscriptionKeyRef.current = keyForThread(...); setState("polling")
onLiveAttached(s, key) ==
  setState([s EXCEPT !.activeSubscriptionKey = key], "polling")

appServerEventHandler(s, p, event, isVisible, isFocused) ==
  LET method == event.method
      params == event.params
      activeWorkspaceId == WorkspaceId(p)
      selectedThreadId == p.activeThreadId
      threadId == extractThreadId(method, params)
  IN IF method = <<>> THEN s
     ELSE IF activeWorkspaceId = "" \/ selectedThreadId = "" THEN s
     ELSE IF fromOtherWorkspace(event, activeWorkspaceId) THEN s
     ELSE IF isSessionConnectedWhileVisible(method, isVisible)
          THEN reconnectLive(s, p, activeWorkspaceId, selectedThreadId, FALSE)
     ELSE IF method = <<"thread", "live_attached">>
          THEN IF threadId = selectedThreadId
               THEN onLiveAttached(s, keyForThread(activeWorkspaceId, threadId))
               ELSE s
     ELSE IF method = <<"thread", "live_detached">>
          THEN IF threadId = selectedThreadId
               THEN LET threadKey == keyForThread(activeWorkspaceId, threadId)
                        ignoreDetachedUntil == s.ignoreDetachedEventsUntil[threadKey]
                        cleared == [s EXCEPT !.ignoreDetachedEventsUntil[threadKey] = 0]
                    IN IF withinIgnoreWindow(ignoreDetachedUntil, now)
                       THEN [cleared EXCEPT !.suppressed = TRUE]
                       ELSE LET s1 == reconcileDisconnectedState(
                                        [cleared EXCEPT !.activeSubscriptionKey = NoKey],
                                        p)
                            IN IF inForeground(isVisible, isFocused)
                               THEN reconnectLive(s1, p, activeWorkspaceId,
                                                  selectedThreadId, TRUE)
                               ELSE s1
               ELSE s
     ELSE IF method = <<"thread", "live_heartbeat">>
          THEN IF threadId = selectedThreadId THEN setState(s, "live") ELSE s
     ELSE IF ~isThreadActivityMethod(method) THEN s
     ELSE IF threadId # selectedThreadId THEN s
     ELSE setState(s, "live")

\* ----------------------------------------------------------------- inputs
Field(raw) == <<raw>>
Absent == <<>>
DirectParams(raw) == [turn |-> Absent, threadId |-> Field(raw), thread_id |-> Absent]
EventParams ==
  { [turn |-> Absent, threadId |-> Absent, thread_id |-> Absent],
    DirectParams("t1"), DirectParams("t2"), DirectParams(" "), DirectParams(" t1 "),
    [turn |-> Absent, threadId |-> Absent, thread_id |-> Field("t2")],
    [turn |-> <<[threadId |-> Field("t2"), thread_id |-> Absent]>>,
     threadId |-> Field("t1"), thread_id |-> Absent],
    [turn |-> <<[threadId |-> Field(" "), thread_id |-> Absent]>>,
     threadId |-> Field("t1"), thread_id |-> Absent] }

EventMethods ==
  { <<>>, <<"codex", "connected">>, <<"thread", "live_attached">>,
    <<"thread", "live_detached">>, <<"thread", "live_heartbeat">>,
    <<"item", "started">>, <<"turn", "started">>, <<"error">>,
    <<"thread", "tokenUsage", "updated">>, <<"thread", "started">> }



ReconnectArgs ==
  [workspaceId : ActiveWorkspaces, threadId : Threads, runResume : BOOLEAN]


\* ------------------------------------------------------------------ actions
WithinBounds(s, sc) ==
  /\ Cardinality(DOMAIN s.attempts) <= sc.maxInFlight
  /\ s.reconnectSequence <= sc.maxSequence
  /\ sc.maxUnsubscribing > 0 => Len(s.unsubscribing) <= sc.maxUnsubscribing
  /\ sc.backend => Len(s.detaching) <= MaxDetaching

Job(op) == [NoJob EXCEPT !.op = op]

\* history bookkeeping of a job that started an attempt: fresh on the new
\* attempt, overtaken on the attempts it overtook
Observe(s) ==
  IF s.call # "started"
  THEN s.attempts
  ELSE LET n == s.attempt
           key == s.attempts[n].key
       IN [i \in DOMAIN s.attempts |->
             IF i = n
             THEN [s.attempts[i] EXCEPT !.fresh =
                     \E j \in DOMAIN attempts :
                        /\ attempts[j].key = key
                        /\ attempts[j].sequence # reconnectSequence]
             ELSE IF s.attempts[i].pc = "subscribe" /\ s.attempts[i].key # key
                  THEN [s.attempts[i] EXCEPT !.overtaken = TRUE]
                  ELSE s.attempts[i]]

\* the refs after a job, and the record of the job; a scope with
\* maxUnsubscribing = 0 does not follow the discarded unsubscribeByKey promises,
\* one with backend = FALSE does not follow the backend
Commit(s, job, sc) ==
  /\ WithinBounds(s, sc)
  /\ connectionState' = s.connectionState
  /\ activeSubscriptionKey' = s.activeSubscriptionKey
  /\ desiredSubscriptionKey' = s.desiredSubscriptionKey
  /\ ignoreDetachedEventsUntil' = s.ignoreDetachedEventsUntil
  /\ inFlightReconnect' = s.inFlightReconnect
  /\ reconnectSequence' = s.reconnectSequence
  /\ attempts' = Observe(s)
  /\ calls' = s.calls
  /\ unsubscribing' = (IF sc.maxUnsubscribing > 0 THEN s.unsubscribing
                       ELSE unsubscribing)
  /\ subscribed' = (IF sc.backend THEN s.subscribed ELSE subscribed)
  /\ detaching' = (IF sc.backend THEN s.detaching ELSE detaching)
  /\ last' = [job EXCEPT !.call = s.call,
                         !.attempt = IF s.call = "none" THEN job.attempt ELSE s.attempt,
                         !.suppressed = s.suppressed,
                         !.settled = s.settled]

\* first commit: the effects run in declaration order
Mount(sc) ==
  /\ mounted = "no"
  /\ mounted' = "yes"
  /\ Commit(selectionEffect(Coord, Props, visible), Job("mount"), sc)
  /\ UNCHANGED <<propVars, visible, focused, now>>

anyPropChanged(p, q) == p # q

\* the dependency list of the selection effect: activeThreadId,
\* activeWorkspaceConnected, activeWorkspaceId, backendMode (the callbacks in
\* the list are stable)
selectionDepsChanged(p, q) ==
  \/ q.activeThreadId # p.activeThreadId
  \/ WorkspaceConnected(q) # WorkspaceConnected(p)
  \/ WorkspaceId(q) # WorkspaceId(p)
  \/ q.backendMode # p.backendMode

\* a re-render with new props; the selection effect runs when one of its
\* dependencies changed (ok records whether it did)
Rerender(sc) ==
  /\ mounted = "yes"
  /\ \E mode \in sc.modes, workspace \in sc.workspaces, thread \in sc.threads :
       LET p == [backendMode |-> mode, activeWorkspace |-> workspace,
                 activeThreadId |-> thread,
                 hasReconnectWorkspace |-> hasReconnectWorkspace]
           depsChanged == selectionDepsChanged(Props, p)
       IN /\ <<mode, workspace, thread>> # <<backendMode, activeWorkspace, activeThreadId>>
          /\ backendMode' = mode
          /\ activeWorkspace' = workspace
          /\ activeThreadId' = thread
          /\ Commit(IF depsChanged THEN selectionEffect(Coord, p, visible) ELSE Coord,
                    [Job("rerender") EXCEPT !.ok = depsChanged], sc)
  /\ UNCHANGED <<hasReconnectWorkspace, visible, focused, now, mounted>>

\* whether the event is addressed to the current selection (a property of the
\* input, recorded with the job)
EventMatches(event, p) ==
  /\ event.method # <<>>
  /\ WorkspaceId(p) # ""
  /\ p.activeThreadId # ""
  /\ event.workspace_id = WorkspaceId(p)
  /\ \/ event.method = <<"codex", "connected">>
     \/ extractThreadId(event.method, event.params) = p.activeThreadId

\* history of a detached event addressed to the selection: whether its key was
\* the active key, and its key's self-detach entry ("none", "open", "expired")
SelectedKey == keyForThread(WorkspaceId(Props), activeThreadId)

WasActive(event) ==
  /\ event.method = <<"thread", "live_detached">>
  /\ activeSubscriptionKey = SelectedKey

WindowAt(event) ==
  IF event.method # <<"thread", "live_detached">> THEN "none"
  ELSE IF ignoreDetachedEventsUntil[SelectedKey] = 0 THEN "none"
  ELSE IF ignoreDetachedEventsUntil[SelectedKey] >= now THEN "open"
  ELSE "expired"

\* the job record keeps the method of an event addressed to the selection
\* and only ok = FALSE for any other event
AppServerEvent(sc) ==
  /\ mounted = "yes"
  /\ \E event \in sc.events :
       Commit(appServerEventHandler(Coord, Props, event, visible, focused),
              IF EventMatches(event, Props)
              THEN [Job("event") EXCEPT !.method = event.method,
                                        !.workspaceId = event.workspace_id,
                                        !.threadId = activeThreadId,
                                        !.wasActive = WasActive(event),
                                        !.window = WindowAt(event)]
              ELSE [Job("event") EXCEPT !.ok = FALSE], sc)
  /\ UNCHANGED <<propVars, visible, focused, now, mounted>>

WindowFocus(sc) ==
  /\ mounted = "yes"
  /\ focused' = TRUE
  /\ Commit(handleFocus(Coord, Props, visible), Job("focus"), sc)
  /\ UNCHANGED <<propVars, visible, now, mounted>>

\* blurredAt: the history field of the attempts in flight
MarkBlurred(s) ==
  [s EXCEPT !.attempts = [i \in DOMAIN s.attempts |->
      [s.attempts[i] EXCEPT !.blurredAt = s.attempts[i].pc]]]

WindowBlur(sc) ==
  /\ mounted = "yes"
  /\ focused' = FALSE
  /\ Commit(MarkBlurred(handleBlur(Coord, Props)), Job("blur"), sc)
  /\ UNCHANGED <<propVars, visible, now, mounted>>

VisibilityChange(sc) ==
  /\ mounted = "yes"
  /\ visible' = ~visible
  /\ Commit(IF visible
            THEN MarkBlurred(handleVisibilityChange(Coord, Props, FALSE))
            ELSE handleVisibilityChange(Coord, Props, TRUE),
            Job(IF visible THEN "hidden" ELSE "shown"), sc)
  /\ UNCHANGED <<propVars, focused, now, mounted>>

\* a call of the returned reconnectLive by UI code
Reconnect(sc) ==
  /\ mounted = "yes"
  /\ \E a \in sc.reconnects :
       Commit(reconnectLive(Coord, Props, a.workspaceId, a.threadId, a.runResume),
              [Job("reconnect") EXCEPT !.workspaceId = a.workspaceId,
                                       !.threadId = a.threadId,
                                       !.runResume = a.runResume], sc)
  /\ UNCHANGED <<propVars, visible, focused, now, mounted>>

\* the promise an attempt awaits settles and the attempt runs to its next await
ResumeOne(sc, i) ==
  /\ i \in DOMAIN attempts
  /\ \E ok \in sc.outcomes :
       Commit(ResumeAttempt(CallSettled([Coord EXCEPT !.attempts[i].failed =
                                                        ~ok \/ attempts[i].failed],
                                        attempts[i].pc, attempts[i].key, ok),
                            Props, i, ok),
              [Job("resume") EXCEPT !.attempt = i, !.ok = ok,
                                    !.method = <<attempts[i].pc>>], sc)
  /\ UNCHANGED <<propVars, visible, focused, now, mounted>>

\* one of the promises awaited by the attempts in flight settles
Resume(sc) == \E i \in DOMAIN attempts : ResumeOne(sc, i)

Tick(sc) ==
  /\ now < sc.maxTicks * SELF_DETACH_IGNORE_WINDOW_MS
  /\ now' = now + SELF_DETACH_IGNORE_WINDOW_MS
  /\ last' = Job("tick")
  /\ calls' = NoCalls
  /\ UNCHANGED <<propVars, refVars, attempts, unsubscribing, subscribed, detaching,
                 visible, focused, mounted>>

Unmount(sc) ==
  /\ mounted = "yes"
  /\ mounted' = "gone"
  /\ Commit(lifecycleCleanup(Coord), Job("unmount"), sc)
  /\ UNCHANGED <<propVars, visible, focused, now>>

\* the threadLiveUnsubscribe promise awaited inside a discarded
\* unsubscribeByKey call settles (ok = fulfilled, ~ok = rejected)
UnsubscribeSettled(sc) ==
  /\ \E n \in DOMAIN unsubscribing, ok \in sc.outcomes :
       LET key == unsubscribing[n]
           s == unsubscribeByKeySettled(CallSettled(Coord, "unsubscribe", key, ok),
                                        key, ok)
       IN Commit([s EXCEPT !.unsubscribing =
                             SubSeq(@, 1, n - 1) \o SubSeq(@, n + 1, Len(@))],
                 [Job("unsubscribed") EXCEPT !.ok = ok,
                                             !.workspaceId = key[1],
                                             !.threadId = key[2]], sc)
  /\ UNCHANGED <<propVars, visible, focused, now, mounted>>

\* the backend drops the subscription of a key on its own
BackendDrops(sc) ==
  /\ \E key \in subscribed :
       Commit(threadLiveDropped(Coord, key),
              [Job("dropped") EXCEPT !.workspaceId = key[1], !.threadId = key[2]], sc)
  /\ UNCHANGED <<propVars, visible, focused, now, mounted>>

\* the oldest detached notification of the backend reaches the listener
Detached(sc) ==
  /\ mounted = "yes"
  /\ detaching # <<>>
  /\ LET head == detaching[1]
         event == [workspace_id |-> head.key[1],
                   method |-> <<"thread", "live_detached">>,
                   params |-> DirectParams(head.key[2])]
     IN Commit(appServerEventHandler([Coord EXCEPT !.detaching = Tail(@)],
                                     Props, event, visible, focused),
               IF EventMatches(event, Props)
               THEN [Job("event") EXCEPT !.method = event.method,
                                         !.workspaceId = event.workspace_id,
                                         !.threadId = activeThreadId,
                                         !.wasActive = WasActive(event),
                                         !.window = WindowAt(event),
                                         !.origin = head.origin]
               ELSE [Job("event") EXCEPT !.ok = FALSE, !.origin = head.origin], sc)
  /\ UNCHANGED <<propVars, visible, focused, now, mounted>>

\* ------------------------------------------------------------------ scopes
ConnectedWorkspace == <<[id |-> "ws1", name |-> "Workspace", connected |-> TRUE]>>
DisconnectedWorkspace == <<[id |-> "ws1", name |-> "Workspace", connected |-> FALSE]>>

Event(method, threadId) ==
  [workspace_id |-> "ws1", method |-> method, params |-> DirectParams(threadId)]

\* The reconnection engine under overlapping triggers: two keys, explicit
\* reconnect calls, blur/focus/visibility, selection changes, attached events.
EngineScope ==
  [modes |-> {"remote"},
   workspaces |-> {ConnectedWorkspace, DisconnectedWorkspace},
   threads |-> {"t1"},
   sessionReconnect |-> {TRUE},
   visible |-> {TRUE}, focused |-> {TRUE},
   events |-> {Event(<<"thread", "live_attached">>, "t1")},
   reconnects |-> ReconnectArgs,
   outcomes |-> BOOLEAN,
   maxInFlight |-> MaxInFlight, maxSequence |-> MaxSequence, maxTicks |-> 0,
   maxUnsubscribing |-> 0, backend |-> FALSE]

Init == InitOver(EngineScope)

Next ==
  \/ Mount(EngineScope)
  \/ Rerender(EngineScope)
  \/ AppServerEvent(EngineScope)
  \/ WindowFocus(EngineScope)
  \/ WindowBlur(EngineScope)
  \/ VisibilityChange(EngineScope)
  \/ Reconnect(EngineScope)
  \/ Resume(EngineScope)

Spec == Init /\ [][Next]_vars

\* The event router: one key, every event method, every payload shape, both
\* backend modes.
RouterEvents ==
  {Event(m, "t1") : m \in EventMethods}
    \cup [workspace_id : {"ws1"},
          method : {<<"thread", "live_heartbeat">>},
          params : EventParams]
    \cup [workspace_id : {"ws2"},
          method : {<<"thread", "live_heartbeat">>, <<"thread", "live_detached">>},
          params : {DirectParams("t1")}]

RouterScope ==
  [modes |-> {"remote", "local"},
   workspaces |-> {ConnectedWorkspace, DisconnectedWorkspace},
   threads |-> {"t1"},
   sessionReconnect |-> {FALSE},
   visible |-> {TRUE}, focused |-> {TRUE},
   events |-> RouterEvents,
   reconnects |-> {[workspaceId |-> "ws1", threadId |-> "t1", runResume |-> FALSE]},
   outcomes |-> BOOLEAN,
   maxInFlight |-> 1, maxSequence |-> MaxSequence, maxTicks |-> 0,
   maxUnsubscribing |-> 0, backend |-> FALSE]

InitRouter == InitOver(RouterScope)

NextRouter ==
  \/ Mount(RouterScope)
  \/ Rerender(RouterScope)
  \/ AppServerEvent(RouterScope)
  \/ WindowFocus(RouterScope)
  \/ WindowBlur(RouterScope)
  \/ VisibilityChange(RouterScope)
  \/ Reconnect(RouterScope)
  \/ Resume(RouterScope)

SpecRouter == InitRouter /\ [][NextRouter]_vars

\* The self-detach window: one key, the live events of that key, the clock.
WindowEvents ==
  {Event(m, "t1") : m \in {<<"codex", "connected">>, <<"thread", "live_attached">>,
                           <<"thread", "live_detached">>,
                           <<"thread", "live_heartbeat">>}}

WindowScope ==
  [modes |-> {"remote"},
   workspaces |-> {ConnectedWorkspace},
   threads |-> {"t1"},
   sessionReconnect |-> {FALSE},
   visible |-> BOOLEAN, focused |-> BOOLEAN,
   events |-> WindowEvents,
   reconnects |-> {[workspaceId |-> "ws1", threadId |-> "t1", runResume |-> FALSE]},
   outcomes |-> BOOLEAN,
   maxInFlight |-> MaxInFlight, maxSequence |-> MaxSequence, maxTicks |-> MaxTicks,
   maxUnsubscribing |-> 0, backend |-> FALSE]

InitWindow == InitOver(WindowScope)

NextWindow ==
  \/ Mount(WindowScope)
  \/ AppServerEvent(WindowScope)
  \/ WindowFocus(WindowScope)
  \/ WindowBlur(WindowScope)
  \/ VisibilityChange(WindowScope)
  \/ Reconnect(WindowScope)
  \/ Resume(WindowScope)
  \/ Tick(WindowScope)

SpecWindow == InitWindow /\ [][NextWindow]_vars

\* Calls of the returned reconnectLive with any arguments under any props:
\* both backend modes, a missing workspace, empty and foreign ids.
CallScope ==
  [modes |-> {"remote", "local"},
   workspaces |-> {<<>>, ConnectedWorkspace, DisconnectedWorkspace},
   threads |-> {"t1"},
   sessionReconnect |-> {TRUE},
   visible |-> {TRUE}, focused |-> {TRUE},
   events |-> {},
   reconnects |-> [workspaceId : {"ws1", ""}, threadId : {"t1", "t2", ""},
                   runResume : BOOLEAN],
   outcomes |-> BOOLEAN,
   maxInFlight |-> MaxInFlight, maxSequence |-> MaxSequence, maxTicks |-> 0,
   maxUnsubscribing |-> 0, backend |-> FALSE]

InitCall == InitOver(CallScope)

NextCall ==
  \/ Mount(CallScope)
  \/ Rerender(CallScope)
  \/ WindowFocus(CallScope)
  \/ WindowBlur(CallScope)
  \/ Reconnect(CallScope)
  \/ Resume(CallScope)

SpecCall == InitCall /\ [][NextCall]_vars

\* One key under repeated invalidation: blur, hide, focus, show and explicit
\* reconnect calls for the selected key, with a longer run of sequence numbers.
OneKeyScope ==
  [modes |-> {"remote"},
   workspaces |-> {ConnectedWorkspace},
   threads |-> {"t1"},
   sessionReconnect |-> {FALSE},
   visible |-> {TRUE}, focused |-> {TRUE},
   events |-> {},
   reconnects |-> [workspaceId : {"ws1"}, threadId : {"t1"}, runResume : BOOLEAN],
   outcomes |-> BOOLEAN,
   maxInFlight |-> MaxInFlight, maxSequence |-> MaxSequenceOneKey, maxTicks |-> 0,
   maxUnsubscribing |-> 0, backend |-> FALSE]

InitOneKey == InitOver(OneKeyScope)

NextOneKey ==
  \/ Mount(OneKeyScope)
  \/ WindowFocus(OneKeyScope)
  \/ WindowBlur(OneKeyScope)
  \/ VisibilityChange(OneKeyScope)
  \/ Reconnect(OneKeyScope)
  \/ Resume(OneKeyScope)

SpecOneKey == InitOneKey /\ [][NextOneKey]_vars

\* Selection and teardown: every change of the props (backend mode, a missing
\* workspace, a workspace object replaced by an equal one under another name,
\* another or no thread), with the document visible or hidden, and unmount.
RenamedWorkspace == <<[id |-> "ws1", name |-> "Renamed", connected |-> TRUE]>>

SelectionScope ==
  [modes |-> {"remote", "local"},
   workspaces |-> {<<>>, ConnectedWorkspace, RenamedWorkspace},
   threads |-> {"t1", "t2", ""},
   sessionReconnect |-> {FALSE},
   visible |-> BOOLEAN, focused |-> {TRUE},
   events |-> {Event(<<"thread", "live_attached">>, "t1")},
   reconnects |-> {[workspaceId |-> "ws1", threadId |-> "t1", runResume |-> TRUE]},
   outcomes |-> BOOLEAN,
   maxInFlight |-> MaxInFlight, maxSequence |-> MaxSequence, maxTicks |-> 0,
   maxUnsubscribing |-> 0, backend |-> FALSE]

InitSelection == InitOver(SelectionScope)

NextSelection ==
  \/ Mount(SelectionScope)
  \/ Rerender(SelectionScope)
  \/ AppServerEvent(SelectionScope)
  \/ WindowBlur(SelectionScope)
  \/ VisibilityChange(SelectionScope)
  \/ Reconnect(SelectionScope)
  \/ Resume(SelectionScope)
  \/ Unmount(SelectionScope)

SpecSelection == InitSelection /\ [][NextSelection]_vars

\* Unsubscribe outcomes: the unsubscribe calls of the attempts (self-dedup,
\* cleanup) and the discarded ones of the selection effect, blur and teardown,
\* each of which fulfils or rejects.
UnsubscribeScope ==
  [modes |-> {"remote"},
   workspaces |-> {ConnectedWorkspace},
   threads |-> {"t1", "t2", ""},
   sessionReconnect |-> {FALSE},
   visible |-> {TRUE}, focused |-> {TRUE},
   events |-> {Event(<<"thread", "live_attached">>, "t1")},
   reconnects |-> {[workspaceId |-> "ws1", threadId |-> "t1", runResume |-> FALSE]},
   outcomes |-> BOOLEAN,
   maxInFlight |-> MaxInFlight, maxSequence |-> MaxSequence, maxTicks |-> 0,
   maxUnsubscribing |-> MaxUnsubscribing, backend |-> FALSE]

InitUnsubscribe == InitOver(UnsubscribeScope)

NextUnsubscribe ==
  \/ Mount(UnsubscribeScope)
  \/ Rerender(UnsubscribeScope)
  \/ AppServerEvent(UnsubscribeScope)
  \/ WindowBlur(UnsubscribeScope)
  \/ Reconnect(UnsubscribeScope)
  \/ Resume(UnsubscribeScope)
  \/ UnsubscribeSettled(UnsubscribeScope)
  \/ Unmount(UnsubscribeScope)

SpecUnsubscribe == InitUnsubscribe /\ [][NextUnsubscribe]_vars

\* Events addressed elsewhere: every method and payload shape, from the active
\* and from another workspace, with a thread selected or not and a workspace
\* active or not.
UnmatchedEvents ==
  [workspace_id : {"ws1", "ws2"}, method : EventMethods, params : EventParams]

UnmatchedScope ==
  [modes |-> {"remote"},
   workspaces |-> {<<>>, ConnectedWorkspace},
   threads |-> {"t1", ""},
   sessionReconnect |-> {FALSE},
   visible |-> {TRUE}, focused |-> {TRUE},
   events |-> UnmatchedEvents,
   reconnects |-> {[workspaceId |-> "ws1", threadId |-> "t1", runResume |-> FALSE]},
   outcomes |-> BOOLEAN,
   maxInFlight |-> MaxInFlight, maxSequence |-> MaxSequence, maxTicks |-> 0,
   maxUnsubscribing |-> 0, backend |-> FALSE]

InitUnmatched == InitOver(UnmatchedScope)

NextUnmatched ==
  \/ Mount(UnmatchedScope)
  \/ Rerender(UnmatchedScope)
  \/ AppServerEvent(UnmatchedScope)
  \/ Reconnect(UnmatchedScope)
  \/ Resume(UnmatchedScope)

SpecUnmatched == InitUnmatched /\ [][NextUnmatched]_vars

\* The branches of the selection effect: a key selected or not (no workspace,
\* another backend mode), the document visible or hidden, the workspace
\* connected or not, the selected key subscribed or not.
EffectScope ==
  [modes |-> {"remote", "local"},
   workspaces |-> {<<>>, ConnectedWorkspace, DisconnectedWorkspace},
   threads |-> {"t1"},
   sessionReconnect |-> {FALSE},
   visible |-> BOOLEAN, focused |-> {TRUE},
   events |-> {Event(<<"thread", "live_attached">>, "t1")},
   reconnects |-> {[workspaceId |-> "ws1", threadId |-> "t1", runResume |-> FALSE]},
   outcomes |-> BOOLEAN,
   maxInFlight |-> MaxInFlight, maxSequence |-> MaxSequence, maxTicks |-> 0,
   maxUnsubscribing |-> 0, backend |-> FALSE]

InitEffect == InitOver(EffectScope)

NextEffect ==
  \/ Mount(EffectScope)
  \/ Rerender(EffectScope)
  \/ AppServerEvent(EffectScope)
  \/ VisibilityChange(EffectScope)
  \/ Reconnect(EffectScope)
  \/ Resume(EffectScope)

SpecEffect == InitEffect /\ [][NextEffect]_vars

\* Foreground events: focus and show with a thread selected or not, in both
\* backend modes, with and without a workspace, after a blur or a hide, and
\* with the desired key moved to another thread by an explicit reconnect call.
ForegroundScope ==
  [modes |-> {"remote", "local"},
   workspaces |-> {<<>>, ConnectedWorkspace},
   threads |-> {"t1", ""},
   sessionReconnect |-> {FALSE},
   visible |-> BOOLEAN, focused |-> BOOLEAN,
   events |-> {},
   reconnects |-> {[workspaceId |-> "ws1", threadId |-> "t2", runResume |-> TRUE]},
   outcomes |-> BOOLEAN,
   maxInFlight |-> MaxInFlight, maxSequence |-> MaxSequence, maxTicks |-> 0,
   maxUnsubscribing |-> 0, backend |-> FALSE]

InitForeground == InitOver(ForegroundScope)

NextForeground ==
  \/ Mount(ForegroundScope)
  \/ Rerender(ForegroundScope)
  \/ WindowFocus(ForegroundScope)
  \/ WindowBlur(ForegroundScope)
  \/ VisibilityChange(ForegroundScope)
  \/ Reconnect(ForegroundScope)
  \/ Resume(ForegroundScope)

SpecForeground == InitForeground /\ [][NextForeground]_vars

\* The coordinator against the backend when every collaborator call succeeds
\* and the backend drops nothing on its own: selection of a thread or none,
\* blur and focus, teardown, the calls completing in any order and the
\* detached notifications of the coordinator's own unsubscribes delivered in
\* the order they were sent.
SteadyScope ==
  [modes |-> {"remote"},
   workspaces |-> {ConnectedWorkspace},
   threads |-> {"t1", ""},
   sessionReconnect |-> {FALSE},
   visible |-> {TRUE}, focused |-> {TRUE},
   events |-> {},
   reconnects |-> {},
   outcomes |-> {TRUE},
   maxInFlight |-> MaxInFlight, maxSequence |-> MaxSequenceOneKey, maxTicks |-> 0,
   maxUnsubscribing |-> MaxUnsubscribing, backend |-> TRUE]

InitSteady == InitOver(SteadyScope)

NextSteady ==
  \/ Mount(SteadyScope)
  \/ Rerender(SteadyScope)
  \/ WindowFocus(SteadyScope)
  \/ WindowBlur(SteadyScope)
  \/ Resume(SteadyScope)
  \/ UnsubscribeSettled(SteadyScope)
  \/ Detached(SteadyScope)
  \/ Unmount(SteadyScope)

SpecSteady == InitSteady /\ [][NextSteady]_vars

\* The coordinator against a backend that may drop a subscription on its own
\* and whose calls may fail: one key, blur and focus, session-connected and
\* attached events, the detached notifications delivered in the order sent.
BackendScope ==
  [modes |-> {"remote"},
   workspaces |-> {ConnectedWorkspace},
   threads |-> {"t1"},
   sessionReconnect |-> {FALSE},
   visible |-> {TRUE}, focused |-> {TRUE},
   events |-> {Event(<<"codex", "connected">>, "t1")},
   reconnects |-> {[workspaceId |-> "ws1", threadId |-> "t1", runResume |-> FALSE]},
   outcomes |-> BOOLEAN,
   maxInFlight |-> MaxInFlight, maxSequence |-> MaxSequenceOneKey, maxTicks |-> MaxTicks,
   maxUnsubscribing |-> MaxUnsubscribing, backend |-> TRUE]

InitBackend == InitOver(BackendScope)

NextBackend ==
  \/ Mount(BackendScope)
  \/ AppServerEvent(BackendScope)
  \/ WindowFocus(BackendScope)
  \/ WindowBlur(BackendScope)
  \/ Reconnect(BackendScope)
  \/ Resume(BackendScope)
  \/ UnsubscribeSettled(BackendScope)
  \/ BackendDrops(BackendScope)
  \/ Detached(BackendScope)
  \/ Tick(BackendScope)

SpecBackend == InitBackend /\ [][NextBackend]_vars

\* Settling: every collaborator call eventually settles. Attempts for one
\* key of a workspace that may need a session reconnect, started by the mount
\* and by focus, cancelled by blur; each attempt in flight is resumed eventually
\* (weak fairness per attempt: an awaited call that stays pending settles).
SettlingScope ==
  [modes |-> {"remote"},
   workspaces |-> {ConnectedWorkspace, DisconnectedWorkspace},
   threads |-> {"t1"},
   sessionReconnect |-> {TRUE},
   visible |-> {TRUE}, focused |-> {TRUE},
   events |-> {},
   reconnects |-> {},
   outcomes |-> BOOLEAN,
   maxInFlight |-> MaxInFlight, maxSequence |-> MaxSequenceOneKey, maxTicks |-> 0,
   maxUnsubscribing |-> 0, backend |-> FALSE]

InitSettling == InitOver(SettlingScope)

NextSettling ==
  \/ Mount(SettlingScope)
  \/ WindowFocus(SettlingScope)
  \/ WindowBlur(SettlingScope)
  \/ Resume(SettlingScope)

CallsSettle == \A i \in 1..MaxSequenceOneKey : WF_vars(ResumeOne(SettlingScope, i))

SpecSettling == InitSettling /\ [][NextSettling]_vars /\ CallsSettle

\* Foreground regained: remote mode, a connected workspace, one selected key,
\* every collaborator call succeeds; the only triggers are the mount and the
\* window's blur, focus and visibility events, so that the last trigger before
\* a state with the document visible and focused made it so.
RegainedScope ==
  [modes |-> {"remote"},
   workspaces |-> {ConnectedWorkspace},
   threads |-> {"t1"},
   sessionReconnect |-> {FALSE},
   visible |-> {TRUE}, focused |-> {TRUE},
   events |-> {},
   reconnects |-> {},
   outcomes |-> {TRUE},
   maxInFlight |-> MaxInFlight, maxSequence |-> MaxSequenceOneKey, maxTicks |-> 0,
   maxUnsubscribing |-> MaxUnsubscribing, backend |-> FALSE]

InitRegained == InitOver(RegainedScope)

NextRegained ==
  \/ Mount(RegainedScope)
  \/ WindowFocus(RegainedScope)
  \/ WindowBlur(RegainedScope)
  \/ VisibilityChange(RegainedScope)
  \/ Resume(RegainedScope)
  \/ UnsubscribeSettled(RegainedScope)

SpecRegained == InitRegained /\ [][NextRegained]_vars


\* the attempts in flight for key whose sequence is still the current one
CurrentAttemptsFor(key) ==
  {i \in DOMAIN attempts :
     attempts[i].key = key /\ attempts[i].sequence = reconnectSequence}

\* the job just done was a call reconnect(workspaceId, threadId) made while an
\* attempt for that key was unresolved and the sequence had not advanced
SecondCall ==
  /\ last'.op = "reconnect"
  /\ last'.workspaceId # "" /\ last'.threadId # ""
  /\ CurrentAttemptsFor(keyForThread(last'.workspaceId, last'.threadId)) # {}

\* the call returned the promise of that attempt and did nothing else
Joined ==
  /\ last'.call = "coalesced"
  /\ last'.attempt \in CurrentAttemptsFor(keyForThread(last'.workspaceId,
                                                        last'.threadId))
  /\ calls' = NoCalls
  /\ attempts' = attempts
  /\ inFlightReconnect' = inFlightReconnect
  /\ reconnectSequence' = reconnectSequence

\* no attempt issues a second subscribe call, and one that resolved true
\* issued exactly one
OneSubscribePerAttempt ==
  /\ \A i \in DOMAIN attempts : attempts[i].subscribes <= 1
  /\ \A n \in DOMAIN last.settled :
       /\ last.settled[n].subscribes <= 1
       /\ last.settled[n].result = "true" => last.settled[n].subscribes = 1

\* C1 as stated: a reconnect call for key K made while an attempt for K is
\* unresolved and the sequence has not advanced since it started returns that
\* attempt's promise, whatever the props are at the time of the call.
C1_AsStated == [][SecondCall => Joined]_vars

\* C1: a reconnect call for key K that passes the precondition check (remote
\* mode, an active workspace) while an attempt for K is unresolved and the
\* sequence has not advanced since it started returns that attempt's promise:
\* the call issues no subscribe, unsubscribe or refresh call and starts no
\* attempt, so both callers get the one result of the one attempt, which issues
\* one subscribe call for K in all.
C1_Coalescing ==
  [][/\ (SecondCall /\ backendMode = "remote" /\ activeWorkspace # <<>>) => Joined
     /\ OneSubscribePerAttempt']_vars

\* a second call has joined an attempt that awaits its one subscribe call
C1_Witness ==
  /\ last.op = "reconnect"
  /\ last.call = "coalesced"
  /\ last.attempt \in DOMAIN attempts
  /\ attempts[last.attempt].key = keyForThread(last.workspaceId, last.threadId)
  /\ attempts[last.attempt].pc = "subscribe"
  /\ attempts[last.attempt].subscribes = 1
  /\ calls = NoCalls

\* the job just done: the subscribe call of an attempt resolved
SubscribeResolved ==
  /\ last'.op = "resume"
  /\ last'.method = <<"subscribe">>
  /\ last'.ok

\* the attempt the job just done resumed, as it was before the job
Resumed == attempts[last'.attempt]

\* the resumed attempt did not set the active key, and if it resolved it
\* resolved false
TornDown ==
  /\ activeSubscriptionKey' = activeSubscriptionKey
  /\ \A n \in DOMAIN last'.settled :
       last'.settled[n].result = "false" /\ ~last'.settled[n].wroteActive
  /\ last'.settled = <<>> => /\ last'.attempt \in DOMAIN attempts'
                             /\ attempts'[last'.attempt].pc = "cleanupUnsubscribe"

\* an attempt that resolves after its cleanup unsubscribe resolves false
\* without having set the active key
CleanupEndsFalse ==
  (last'.op = "resume" /\ last'.method = <<"cleanupUnsubscribe">>) =>
     /\ Len(last'.settled) = 1
     /\ last'.settled[1].result = "false"
     /\ ~last'.settled[1].wroteActive
     /\ activeSubscriptionKey' = activeSubscriptionKey

\* C2 as stated: when a blur or hide happened while the subscribe call of an
\* attempt for K was in flight, then once the call resolves unsubscribe(K) is
\* issued, and the attempt does not set the active key and resolves false.
C2_AsStated ==
  [][/\ (SubscribeResolved /\ Resumed.blurredAt = "subscribe") =>
          /\ calls'.unsubscribe = <<Resumed.key>>
          /\ TornDown
     /\ CleanupEndsFalse]_vars

\* C2: when a blur or hide happened while the subscribe call of an attempt for
\* K was in flight, then once the call resolves the attempt does not set the
\* active key and resolves false; it issues unsubscribe(K) exactly when the
\* desired key is not K at that moment (a reconnect for K after the blur makes
\* K the desired key again, and then no unsubscribe is issued).
C2_BlurDuringSubscribe ==
  [][/\ (SubscribeResolved /\ Resumed.blurredAt = "subscribe") =>
          /\ calls'.unsubscribe =
               (IF desiredSubscriptionKey # Resumed.key
                THEN <<Resumed.key>> ELSE <<>>)
          /\ TornDown
     /\ CleanupEndsFalse]_vars

\* the subscribe call of a blurred attempt resolved and unsubscribe(K) was issued
C2_Witness ==
  /\ last.op = "resume" /\ last.method = <<"subscribe">> /\ last.ok
  /\ last.attempt \in DOMAIN attempts
  /\ attempts[last.attempt].blurredAt = "subscribe"
  /\ attempts[last.attempt].pc = "cleanupUnsubscribe"
  /\ calls.unsubscribe = <<attempts[last.attempt].key>>
  /\ activeSubscriptionKey = NoKey

\* C3 as stated: when an attempt for K2 # K1 was started while the attempt for
\* K1 awaited its subscribe call, then once that call resolves the K1 attempt
\* finds its sequence outdated and the desired key different from K1, issues
\* unsubscribe(K1), does not set the active key and resolves false.
C3_AsStated ==
  [][(SubscribeResolved /\ Resumed.overtaken) =>
        /\ Resumed.sequence # reconnectSequence
        /\ desiredSubscriptionKey # Resumed.key
        /\ calls'.unsubscribe = <<Resumed.key>>
        /\ TornDown]_vars

\* C3: when an attempt for K2 # K1 was started while the attempt for K1
\* awaited its subscribe call, then once that call resolves the K1 attempt
\* finds its sequence outdated, does not set the active key and resolves
\* false; it issues unsubscribe(K1) exactly when the desired key is not K1 at
\* that moment (a later reconnect for K1 makes K1 the desired key again).
C3_Superseded ==
  [][/\ (SubscribeResolved /\ Resumed.overtaken) =>
          /\ Resumed.sequence # reconnectSequence
          /\ calls'.unsubscribe =
               (IF desiredSubscriptionKey # Resumed.key
                THEN <<Resumed.key>> ELSE <<>>)
          /\ TornDown
     /\ CleanupEndsFalse]_vars

\* the K1 attempt's subscribe call resolved while K2 was the desired key
C3_Witness ==
  /\ last.op = "resume" /\ last.method = <<"subscribe">> /\ last.ok
  /\ last.attempt \in DOMAIN attempts
  /\ attempts[last.attempt].overtaken
  /\ attempts[last.attempt].pc = "cleanupUnsubscribe"
  /\ desiredSubscriptionKey \notin {NoKey, attempts[last.attempt].key}
  /\ calls.unsubscribe = <<attempts[last.attempt].key>>
  /\ activeSubscriptionKey # attempts[last.attempt].key

\* the job just done made a reconnect call that passed the precondition check
AcceptedCall == last'.call \in {"started", "coalesced"}

\* the key of that call
CalledKey == attempts'[last'.attempt].key

\* the attempts in flight for key whose sequence is outdated
OutdatedAttemptsFor(key) ==
  {i \in DOMAIN attempts :
     attempts[i].key = key /\ attempts[i].sequence # reconnectSequence}

\* an outdated attempt whose subscribe call resolves while its key is the
\* desired key resolves false and issues no call
OlderEndsQuietly ==
  (/\ SubscribeResolved
   /\ Resumed.sequence # reconnectSequence
   /\ desiredSubscriptionKey = Resumed.key) =>
     /\ calls' = NoCalls
     /\ Len(last'.settled) = 1
     /\ last'.settled[1].result = "false"
     /\ ~last'.settled[1].wroteActive
     /\ activeSubscriptionKey' = activeSubscriptionKey

\* C4 as stated: a reconnect for K made while an attempt for K is in flight
\* with an outdated sequence does not return that attempt's promise but
\* starts a new attempt; that attempt resolves true, having issued its own
\* subscribe call, if its collaborators succeed; the older attempt resolves
\* false when its subscribe call resolves, without an unsubscribe(K) while
\* the desired key is K.
C4_AsStated ==
  [][/\ (AcceptedCall /\ OutdatedAttemptsFor(CalledKey) # {}) =>
          /\ last'.attempt \notin OutdatedAttemptsFor(CalledKey)
          /\ CurrentAttemptsFor(CalledKey) = {} => last'.call = "started"
     /\ \A n \in DOMAIN last'.settled :
          (last'.settled[n].fresh /\ ~last'.settled[n].failed) =>
             /\ last'.settled[n].result = "true"
             /\ last'.settled[n].subscribes = 1
     /\ OlderEndsQuietly]_vars

\* C4: a reconnect for K made while an attempt for K is in flight with an
\* outdated sequence never returns that attempt's promise: it starts a new
\* attempt, unless a newer attempt for K with the current sequence is in
\* flight, which it joins. An attempt so started resolves true, having issued
\* its own subscribe call, if its collaborators succeed and the sequence has
\* not advanced again when it resolves. The older attempt resolves false when
\* its subscribe call resolves, without an unsubscribe(K) while the desired
\* key is K.
C4_FreshAttempt ==
  [][/\ (AcceptedCall /\ OutdatedAttemptsFor(CalledKey) # {}) =>
          /\ last'.attempt \notin OutdatedAttemptsFor(CalledKey)
          /\ last'.call = "coalesced" => last'.attempt \in CurrentAttemptsFor(CalledKey)
          /\ CurrentAttemptsFor(CalledKey) = {} =>
               /\ last'.call = "started"
               /\ last'.attempt \notin DOMAIN attempts
     /\ \A n \in DOMAIN last'.settled :
          (/\ last'.settled[n].fresh
           /\ ~last'.settled[n].failed
           /\ last'.settled[n].sequence = reconnectSequence') =>
             /\ last'.settled[n].result = "true"
             /\ last'.settled[n].subscribes = 1
     /\ OlderEndsQuietly]_vars

\* the new attempt resolved true while the older attempt for the same key
\* still awaits its subscribe call
C4_Witness ==
  /\ Len(last.settled) = 1
  /\ last.settled[1].fresh
  /\ last.settled[1].result = "true"
  /\ last.settled[1].subscribes = 1
  /\ \E j \in DOMAIN attempts :
       /\ attempts[j].key = last.settled[1].key
       /\ attempts[j].pc = "subscribe"
       /\ attempts[j].sequence < last.settled[1].sequence
  /\ desiredSubscriptionKey = last.settled[1].key

\* C5: an attempt resolves true exactly when, at the moment it resolves, its
\* sequence is the current one and it has just set the active key to its key
\* and the connection state to polling; in every other outcome it resolves
\* false, and a call that fails the precondition check starts no attempt and
\* sets no active key.
C5_Result ==
  [][/\ \A n \in DOMAIN last'.settled :
          /\ last'.settled[n].result \in {"true", "false"}
          /\ last'.settled[n].result = "true" <=>
               /\ last'.settled[n].sequence = reconnectSequence'
               /\ last'.settled[n].wroteActive
               /\ activeSubscriptionKey' = last'.settled[n].key
               /\ connectionState' = "polling"
          /\ last'.settled[n].sequence # reconnectSequence' =>
               last'.settled[n].result = "false"
          /\ last'.settled[n].failed /\ ~last'.ok =>
               last'.settled[n].result = "false"
     /\ (last'.op = "reconnect" /\ last'.call = "rejected") =>
          /\ attempts' = attempts
          /\ activeSubscriptionKey' = activeSubscriptionKey
          /\ calls' = NoCalls]_vars

\* an attempt resolved true over a disconnected workspace: active key set,
\* state polling
C5_Witness ==
  /\ Len(last.settled) = 1
  /\ last.settled[1].result = "true"
  /\ last.settled[1].sequence = reconnectSequence
  /\ activeSubscriptionKey = last.settled[1].key
  /\ connectionState = "polling"
  /\ ~WorkspaceConnected(Props)

\* the value reconcileDisconnectedState sets under the current props
Reconciled ==
  IF backendMode # "remote"
  THEN (IF WorkspaceConnected(Props) THEN "live" ELSE "disconnected")
  ELSE (IF WorkspaceConnected(Props) THEN "polling" ELSE "disconnected")

\* the job just done: a promise an attempt awaited inside its try block rejected
CollaboratorFailed ==
  /\ last'.op = "resume"
  /\ ~last'.ok
  /\ last'.method \in {<<"reconnectWorkspace">>, <<"refresh">>, <<"subscribe">>}

\* C6: when the session reconnect, the refresh or the subscribe call of an
\* attempt fails, the attempt resolves false (its promise never rejects); if
\* its sequence is the current one the connection state is reconciled (remote
\* mode: polling when the workspace is connected, else disconnected), and if
\* its sequence is outdated the connection state is left unchanged.
C6_ErrorPath ==
  [][CollaboratorFailed =>
       /\ Len(last'.settled) = 1
       /\ last'.settled[1].result = "false"
       /\ last'.attempt \notin DOMAIN attempts'
       /\ connectionState' = (IF Resumed.sequence = reconnectSequence
                              THEN Reconciled ELSE connectionState)
       /\ activeSubscriptionKey' = activeSubscriptionKey
       /\ calls' = NoCalls]_vars

\* an outdated attempt failed and left a state that reconciliation would
\* have changed
C6_Witness ==
  /\ last.op = "resume" /\ ~last.ok /\ last.method = <<"subscribe">>
  /\ Len(last.settled) = 1
  /\ last.settled[1].result = "false"
  /\ last.settled[1].sequence # reconnectSequence
  /\ connectionState # Reconciled

\* the job just done: a detached event addressed to the selected key
DetachedEvent ==
  /\ last'.op = "event"
  /\ last'.method = <<"thread", "live_detached">>

\* the self-detach entry of the selected key before the job
EntryOpen ==
  /\ ignoreDetachedEventsUntil[SelectedKey] > 0
  /\ ignoreDetachedEventsUntil[SelectedKey] >= now

EntryExpired ==
  /\ ignoreDetachedEventsUntil[SelectedKey] > 0
  /\ ignoreDetachedEventsUntil[SelectedKey] < now

\* the job changed nothing but the entry it consumed
Swallowed ==
  /\ activeSubscriptionKey' = activeSubscriptionKey
  /\ connectionState' = connectionState
  /\ desiredSubscriptionKey' = desiredSubscriptionKey
  /\ reconnectSequence' = reconnectSequence
  /\ inFlightReconnect' = inFlightReconnect
  /\ attempts' = attempts
  /\ calls' = NoCalls
  /\ last'.call = "none"
  /\ ignoreDetachedEventsUntil'[SelectedKey] = 0

\* the job called reconnect for the selected key with runResume = true: it
\* started an attempt, or joined the attempt for that key in flight with the
\* current sequence
StartedOrJoined ==
  /\ last'.call \in {"started", "coalesced"}
  /\ last'.call = "started" <=> CurrentAttemptsFor(SelectedKey) = {}
  /\ last'.call = "started" =>
       /\ last'.attempt \notin DOMAIN attempts
       /\ attempts'[last'.attempt].key = SelectedKey
       /\ attempts'[last'.attempt].runResume
  /\ last'.call = "coalesced" =>
       /\ last'.attempt \in CurrentAttemptsFor(SelectedKey)
       /\ attempts' = attempts
       /\ calls' = NoCalls

\* C7 as stated: a detached event for K within the unexpired self-detach
\* window of K clears no active key, changes no connection state and starts
\* no attempt; one that arrives after the entry has expired starts a
\* reconnection attempt when the document is visible and the window focused.
C7_AsStated ==
  [][DetachedEvent =>
       /\ EntryOpen => Swallowed
       /\ (EntryExpired /\ visible /\ focused /\ backendMode = "remote") =>
            /\ last'.call = "started"
            /\ last'.attempt \notin DOMAIN attempts]_vars

\* C7: a detached event for K within the unexpired self-detach window of K
\* clears no active key, changes no connection state and starts no attempt;
\* one that arrives after the entry has expired calls reconnect when the
\* document is visible and the window focused, which starts an attempt unless
\* an attempt for K with the current sequence is in flight, which it joins.
C7_SelfDetach ==
  [][DetachedEvent =>
       /\ EntryOpen => Swallowed
       /\ (EntryExpired /\ visible /\ focused /\ backendMode = "remote") =>
            /\ activeSubscriptionKey' = NoKey
            /\ StartedOrJoined]_vars

\* a detached event was swallowed inside the window: the key is still active
C7_Witness ==
  /\ last.op = "event" /\ last.method = <<"thread", "live_detached">>
  /\ last.window = "open"
  /\ last.suppressed
  /\ last.wasActive
  /\ activeSubscriptionKey = SelectedKey
  /\ now > 0
  /\ visible /\ focused

\* the job just done: a detached event for the selected key outside an open
\* self-detach window, while that key was the active key
UnsuppressedDetach ==
  /\ DetachedEvent
  /\ ~EntryOpen
  /\ activeSubscriptionKey = SelectedKey

\* in the background the event starts nothing
NothingInBackground ==
  ~(visible /\ focused) =>
     /\ calls'.subscribe = <<>>
     /\ attempts' = attempts
     /\ last'.call = "none"
     /\ activeSubscriptionKey' = NoKey

\* a refresh that resolves for an attempt with the current sequence is
\* followed by the subscribe call, after the dedupe unsubscribe if the key is
\* the active key
RefreshThenSubscribe ==
  /\ (/\ last'.op = "resume" /\ last'.ok /\ last'.method = <<"refresh">>
      /\ Resumed.sequence = reconnectSequence) =>
        /\ last'.attempt \in DOMAIN attempts'
        /\ IF activeSubscriptionKey = Resumed.key
           THEN /\ attempts'[last'.attempt].pc = "dedupeUnsubscribe"
                /\ calls'.unsubscribe = <<Resumed.key>>
           ELSE /\ attempts'[last'.attempt].pc = "subscribe"
                /\ calls'.subscribe = <<Resumed.key>>
  /\ (last'.op = "resume" /\ last'.method = <<"dedupeUnsubscribe">>) =>
        /\ last'.attempt \in DOMAIN attempts'
        /\ attempts'[last'.attempt].pc = "subscribe"
        /\ calls'.subscribe = <<Resumed.key>>

\* C8 as stated: a non-suppressed detached event for the active, selected key
\* causes no subscribe call and no attempt when the window is not focused or
\* the document not visible; when both hold it starts reconnect with
\* runResume = true, which issues a further refresh call.
C8_AsStated ==
  [][UnsuppressedDetach =>
       /\ NothingInBackground
       /\ (visible /\ focused /\ backendMode = "remote") =>
            /\ last'.call \in {"started", "coalesced"}
            /\ attempts'[last'.attempt].runResume
            /\ calls'.refresh = <<SelectedKey>>]_vars

\* C8: a non-suppressed detached event for the active, selected key causes no
\* subscribe call and no attempt when the window is not focused or the
\* document not visible; when both hold it calls reconnect with runResume =
\* true. If no attempt for the key with the current sequence is in flight the
\* call starts one, which issues a refresh call at once and, when the refresh
\* resolves with the sequence still current, a subscribe call; otherwise the
\* call joins the attempt in flight and issues no call.
C8_Detached ==
  [][/\ UnsuppressedDetach =>
          /\ NothingInBackground
          /\ (visible /\ focused /\ backendMode = "remote") =>
               /\ StartedOrJoined
               /\ last'.call = "started" =>
                    /\ calls' = [NoCalls EXCEPT !.refresh = <<SelectedKey>>]
                    /\ attempts'[last'.attempt].pc = "refresh"
     /\ RefreshThenSubscribe]_vars

\* the event arrived in the foreground for the active key and started an
\* attempt that has issued its refresh call
C8_Witness ==
  /\ last.op = "event" /\ last.method = <<"thread", "live_detached">>
  /\ last.wasActive
  /\ last.window # "open"
  /\ ~last.suppressed
  /\ visible /\ focused
  /\ last.call = "started"
  /\ calls.refresh = <<SelectedKey>>
  /\ activeSubscriptionKey = NoKey
  /\ attempts[last.attempt].runResume

\* the job just done: a heartbeat or an activity event (item/*, turn/*, error,
\* thread/tokenUsage/updated) addressed to the selected key
LiveSignal ==
  /\ last'.op = "event"
  /\ Len(last'.method) > 0
  /\ \/ last'.method = <<"thread", "live_heartbeat">>
     \/ last'.method[1] \in {"item", "turn"}
     \/ last'.method = <<"error">>
     \/ last'.method = <<"thread", "tokenUsage", "updated">>

\* C9: a heartbeat or an activity event (item/*, turn/*, error,
\* thread/tokenUsage/updated) for the selected key sets the connection state
\* to live from any state; a detached event for the selected key outside an
\* open self-detach window leaves, in remote mode, a state other than live:
\* polling when the workspace is connected, else disconnected.
C9_LiveSignals ==
  [][/\ LiveSignal => connectionState' = "live"
     /\ (DetachedEvent /\ ~EntryOpen /\ backendMode = "remote") =>
          /\ connectionState' # "live"
          /\ connectionState' = (IF WorkspaceConnected(Props)
                                 THEN "polling" ELSE "disconnected")]_vars

\* an error event made the state live over a disconnected workspace with no
\* subscription
C9_Witness ==
  /\ last.op = "event" /\ last.method = <<"error">>
  /\ connectionState = "live"
  /\ backendMode = "remote"
  /\ ~WorkspaceConnected(Props)
  /\ activeSubscriptionKey = NoKey

\* the job just done: the first commit with a key selected in remote mode on a
\* connected workspace
SelectedMount ==
  /\ last'.op = "mount"
  /\ backendMode = "remote"
  /\ WorkspaceConnected(Props)
  /\ activeThreadId # ""

\* the mount issued one refresh call and started one attempt
OneRefresh ==
  /\ calls' = [NoCalls EXCEPT !.refresh = <<SelectedKey>>]
  /\ last'.call = "started"
  /\ DOMAIN attempts' = {last'.attempt}
  /\ attempts'[last'.attempt].runResume

\* no attempt issues a second refresh or subscribe call, and one that
\* resolved true issued exactly one subscribe call, after exactly one refresh
\* call if it was started with runResume
OncePerAttempt ==
  /\ \A i \in DOMAIN attempts :
       attempts[i].refreshes <= 1 /\ attempts[i].subscribes <= 1
  /\ \A n \in DOMAIN last.settled :
       /\ last.settled[n].refreshes <= 1
       /\ last.settled[n].subscribes <= 1
       /\ last.settled[n].result = "true" =>
            /\ last.settled[n].subscribes = 1
            /\ last.settled[n].refreshes = (IF last.settled[n].runResume THEN 1 ELSE 0)

\* heartbeats, events addressed elsewhere and the passage of time issue no
\* call and start, end or invalidate no attempt
QuietJobs ==
  (\/ last'.op = "tick"
   \/ last'.op = "event" /\ last'.method = <<"thread", "live_heartbeat">>
   \/ last'.op = "event" /\ ~last'.ok) =>
     /\ calls' = NoCalls
     /\ attempts' = attempts
     /\ inFlightReconnect' = inFlightReconnect
     /\ reconnectSequence' = reconnectSequence
     /\ activeSubscriptionKey' = activeSubscriptionKey

\* calls are issued only by the listed triggers and by the attempts they
\* started
OnlyOnTriggers ==
  calls' # NoCalls =>
    \/ last'.op \in {"mount", "rerender", "focus", "shown", "blur", "hidden",
                     "reconnect", "resume", "unmount"}
    \/ /\ last'.op = "event"
       /\ \/ last'.method = <<"codex", "connected">>
          \/ last'.method = <<"thread", "live_detached">> /\ ~EntryOpen

\* C10 as stated: with a key selected in remote mode on a connected
\* workspace the initial mount issues exactly one refresh call (and its
\* attempt one subscribe call); afterwards heartbeats and the passage of time
\* cause no call.
C10_AsStated ==
  [][/\ SelectedMount => OneRefresh
     /\ OncePerAttempt'
     /\ QuietJobs
     /\ OnlyOnTriggers]_vars

\* C10: with a key selected in remote mode on a connected workspace and the
\* document visible, the initial mount issues exactly one refresh call and
\* starts one attempt (with the document hidden it issues no call); an
\* attempt issues at most one refresh and one subscribe call, exactly one
\* subscribe call when it resolves true; afterwards heartbeats and the
\* passage of time, also past the self-detach window, cause no subscribe,
\* unsubscribe or refresh call: calls are issued only on a selection or mode
\* change, focus or visibility gain, blur or hide, a session-reconnected
\* event, a non-suppressed detached event, an explicit reconnect call, and by
\* the attempts these started.
C10_NoSpontaneousReconnects ==
  [][/\ SelectedMount =>
          IF visible THEN OneRefresh
          ELSE calls' = NoCalls /\ attempts' = attempts
     /\ OncePerAttempt'
     /\ QuietJobs
     /\ OnlyOnTriggers]_vars

\* long after a mount whose one attempt subscribed, a heartbeat arrives and
\* nothing is called
C10_Witness ==
  /\ last.op = "event" /\ last.method = <<"thread", "live_heartbeat">>
  /\ now > SELF_DETACH_IGNORE_WINDOW_MS
  /\ reconnectSequence = 1
  /\ attempts = <<>>
  /\ activeSubscriptionKey = SelectedKey
  /\ connectionState = "live"
  /\ calls = NoCalls

\* the job just done: a re-render that replaced the workspace object by one
\* with the same id and connected flag and another name, the backend mode and
\* the selected thread unchanged
SameKeyRerender ==
  /\ last'.op = "rerender"
  /\ backendMode' = backendMode
  /\ activeThreadId' = activeThreadId
  /\ activeWorkspace # <<>> /\ activeWorkspace' # <<>>
  /\ activeWorkspace'[1].id = activeWorkspace[1].id
  /\ activeWorkspace'[1].connected = activeWorkspace[1].connected
  /\ activeWorkspace'[1].name # activeWorkspace[1].name

\* C11: replacing the active workspace object by one with the same id, the
\* same connected flag and another name, with the backend mode and the
\* selected thread unchanged, issues no subscribe, unsubscribe, refresh or
\* session-reconnect call, starts no attempt and leaves the desired key, the
\* active key, the reconnect sequence, the in-flight record and the connection
\* state unchanged.
C11_SameKeyRerender ==
  [][SameKeyRerender =>
       /\ calls' = NoCalls
       /\ last'.call = "none"
       /\ desiredSubscriptionKey' = desiredSubscriptionKey
       /\ activeSubscriptionKey' = activeSubscriptionKey
       /\ reconnectSequence' = reconnectSequence
       /\ connectionState' = connectionState
       /\ inFlightReconnect' = inFlightReconnect
       /\ attempts' = attempts]_vars

\* the workspace was renamed while its key was subscribed and live-attached
C11_Witness ==
  /\ last.op = "rerender"
  /\ activeWorkspace = RenamedWorkspace
  /\ backendMode = "remote"
  /\ activeSubscriptionKey = SelectedKey
  /\ desiredSubscriptionKey = SelectedKey
  /\ connectionState = "polling"
  /\ reconnectSequence = 1
  /\ calls = NoCalls

\* the attempts whose subscribe call for key is pending
PendingSubscribes(key) ==
  {i \in DOMAIN attempts : attempts[i].key = key /\ attempts[i].pc = "subscribe"}

PreconditionFails ==
  /\ last'.op = "reconnect"
  /\ \/ backendMode # "remote"
     \/ last'.workspaceId = ""
     \/ last'.threadId = ""
     \/ activeWorkspace = <<>>

\* C13: a reconnect call made in a backend mode other than remote, with an
\* empty workspace id or thread id, or without an active workspace returns
\* false at once (and only such a call does): it issues no session-reconnect,
\* refresh, subscribe or unsubscribe call, starts no attempt, leaves the
\* desired key, the active key, the reconnect sequence and the in-flight
\* record unchanged, and sets the connection state to the reconciled value
\* (non-remote mode: live when the workspace is connected, else disconnected;
\* remote mode: polling when connected, else disconnected).
C13_Rejection ==
  [][/\ last'.op = "reconnect" => (last'.call = "rejected" <=> PreconditionFails)
     /\ last'.call = "rejected" =>
          /\ last'.settled = <<>>
          /\ calls' = NoCalls
          /\ attempts' = attempts
          /\ desiredSubscriptionKey' = desiredSubscriptionKey
          /\ reconnectSequence' = reconnectSequence
          /\ inFlightReconnect' = inFlightReconnect
          /\ connectionState' = Reconciled
          /\ last'.op = "reconnect" =>
               activeSubscriptionKey' = activeSubscriptionKey]_vars

\* a call with an empty thread id was rejected in non-remote mode while an
\* attempt started in remote mode was still in flight: the state is live
C13_Witness ==
  /\ last.op = "reconnect"
  /\ last.call = "rejected"
  /\ last.threadId = ""
  /\ backendMode = "local"
  /\ connectionState = "live"
  /\ inFlightReconnect # <<>>
  /\ attempts # <<>>

\* the job just done resumed an attempt that was in flight at a blur or hide
BlurredResumed ==
  /\ last'.op = "resume"
  /\ Resumed.blurredAt # ""

\* the resumed attempt ended at once: no call, resolved false, the active key
\* not set
EndsFalse ==
  /\ calls' = NoCalls
  /\ Len(last'.settled) = 1
  /\ last'.settled[1].result = "false"
  /\ ~last'.settled[1].wroteActive

StaleResumed ==
  /\ last'.op = "resume"
  /\ Resumed.sequence # reconnectSequence

\* C15: an attempt whose recorded sequence is not the current reconnect
\* sequence never modifies the active key, neither setting it to its key nor
\* clearing it; in particular one that resumes from its self-dedup unsubscribe
\* does not overwrite an active key written in the meantime by a newer attempt
\* or an attached event.
C15_StaleNeverWritesActive ==
  [][StaleResumed => activeSubscriptionKey' = activeSubscriptionKey]_vars

\* the key the selection effect computes from the props after the job
NextKey ==
  IF backendMode' = "remote" /\ activeWorkspace' # <<>> /\ activeThreadId' # ""
  THEN keyForThread(activeWorkspace'[1].id, activeThreadId')
  ELSE NoKey

\* C16: the desired key is written only synchronously inside a trigger: a
\* reconnect call that passes the precondition check (made by the UI or by a
\* handler) sets it to the call's key, a selection or mode change sets it to
\* the new key or to null, blur, hide and teardown set it to null; every
\* other job, in particular the resumption of an attempt after an await,
\* leaves it unchanged. Hence the desired key is at every state the value
\* assigned by the most recent trigger.
C16_DesiredKeyWrites ==
  [][/\ last'.op = "resume" => desiredSubscriptionKey' = desiredSubscriptionKey
     /\ last'.call \in {"started", "coalesced"} =>
          desiredSubscriptionKey' = attempts'[last'.attempt].key
     /\ last'.op \in {"blur", "hidden", "unmount"} => desiredSubscriptionKey' = NoKey
     /\ (last'.op = "mount" \/ (last'.op = "rerender" /\ last'.ok)) =>
          desiredSubscriptionKey' = NextKey
     /\ (/\ last'.call \in {"none", "rejected"}
         /\ \/ last'.op \in {"event", "focus", "shown", "reconnect", "tick"}
            \/ last'.op = "rerender" /\ ~last'.ok) =>
          desiredSubscriptionKey' = desiredSubscriptionKey]_vars

\* an attempt for the previous selection issued its cleanup unsubscribe while
\* the desired key was the key of the new selection
C16_Witness ==
  /\ last.op = "resume" /\ last.method = <<"subscribe">>
  /\ last.attempt \in DOMAIN attempts
  /\ attempts[last.attempt].pc = "cleanupUnsubscribe"
  /\ desiredSubscriptionKey = SelectedKey
  /\ activeThreadId = "t2"
  /\ attempts[last.attempt].key = <<"ws1", "t1">>

\* what the job just done adds to the reconnect sequence: one for a blur or
\* hide, one for a newly started attempt
SequenceStep ==
  (IF last'.op \in {"blur", "hidden"} THEN 1 ELSE 0)
    + (IF last'.call = "started" THEN 1 ELSE 0)

\* C17: the reconnect sequence never decreases; it increases by exactly one
\* on every blur or hide and on every newly started attempt, and is unchanged
\* by a coalesced or rejected reconnect call, by every event handler that
\* starts no attempt and by the resumption of an attempt.
C17_Sequence ==
  [][/\ reconnectSequence' >= reconnectSequence
     /\ reconnectSequence' = reconnectSequence + SequenceStep
     /\ last'.op \in {"blur", "hidden"} => last'.call = "none"
     /\ last'.call = "started" =>
          /\ last'.attempt = reconnectSequence'
          /\ attempts'[last'.attempt].sequence = reconnectSequence']_vars

\* a blur took the sequence from 2 to 3 while the attempt started with
\* sequence 2 was in flight
C17_Witness ==
  /\ last.op = "blur"
  /\ reconnectSequence = 3
  /\ DOMAIN attempts = {2}
  /\ attempts[2].sequence = 2

\* the job just done: a re-render that changed the backend mode, the active
\* workspace id or the active thread id
SelectionChange ==
  /\ last'.op = "rerender"
  /\ \/ backendMode' # backendMode
     \/ activeThreadId' # activeThreadId
     \/ (IF activeWorkspace' = <<>> THEN "" ELSE activeWorkspace'[1].id)
          # WorkspaceId(Props)

\* the job just done: an attempt set the active key to its key
AttemptSetActive ==
  /\ last'.op = "resume"
  /\ Len(last'.settled) = 1
  /\ last'.settled[1].wroteActive
  /\ activeSubscriptionKey' = last'.settled[1].key

\* C18: every change of (backend mode, active workspace id, active thread id)
\* increments the reconnect sequence, also a change to no selection, a change
\* made while the document is hidden and a change to non-remote mode; so an
\* attempt never sets the active key to a key other than the desired key.
C18_SelectionChangeInvalidates ==
  [][/\ SelectionChange => reconnectSequence' > reconnectSequence
     /\ AttemptSetActive => activeSubscriptionKey' = desiredSubscriptionKey']_vars

\* what blur does, done by the job just done
DoesWhatBlurDoes ==
  /\ reconnectSequence' = reconnectSequence + 1
  /\ desiredSubscriptionKey' = NoKey
  /\ activeSubscriptionKey' = NoKey
  /\ calls'.unsubscribe =
       (IF activeSubscriptionKey # NoKey THEN <<activeSubscriptionKey>> ELSE <<>>)

\* C19: teardown does everything blur does (it increments the reconnect
\* sequence, clears the desired key, clears the active key and issues an
\* unsubscribe for it if it was set) and empties the self-detach map; so
\* when the subscribe call of an attempt that was in flight at teardown
\* resolves afterwards, the cleanup unsubscribe for its key is issued.
C19_TeardownLikeBlur ==
  [][/\ last'.op = "unmount" =>
          /\ DoesWhatBlurDoes
          /\ \A k \in AllKeys : ignoreDetachedEventsUntil'[k] = 0
     /\ (SubscribeResolved /\ mounted = "gone") =>
          calls'.unsubscribe = <<Resumed.key>>]_vars

\* the job just done put an attempt for key on its self-dedup unsubscribe
SelfUnsubscribed(key) ==
  /\ last'.attempt \in DOMAIN attempts'
  /\ attempts'[last'.attempt].key = key
  /\ attempts'[last'.attempt].pc = "dedupeUnsubscribe"
  /\ last'.attempt \in DOMAIN attempts =>
       attempts[last'.attempt].pc # "dedupeUnsubscribe"

\* C20: a detached event for the selected key K is suppressed exactly when an
\* entry for K exists whose expiry is not earlier than the current time (an
\* absent or expired entry never suppresses); the first detached event for K
\* that consults the entry removes it, suppressed or not, so one entry
\* suppresses at most one event. There is one entry per key: a self-dedup
\* unsubscribe of K sets the entry of K to the current time plus the window,
\* replacing any earlier entry, and nothing else writes an entry.
C20_SelfDetachWindow ==
  [][/\ DetachedEvent =>
          /\ last'.suppressed <=> EntryOpen
          /\ ignoreDetachedEventsUntil'[SelectedKey] = 0
          /\ last'.suppressed => Swallowed
     /\ \A key \in AllKeys :
          /\ SelfUnsubscribed(key) =>
               /\ ignoreDetachedEventsUntil'[key] = now + SELF_DETACH_IGNORE_WINDOW_MS
               /\ calls'.unsubscribe = <<key>>
          /\ ignoreDetachedEventsUntil'[key] # ignoreDetachedEventsUntil[key] =>
               \/ DetachedEvent /\ key = SelectedKey
               \/ SelfUnsubscribed(key)]_vars

\* a detached event found an expired entry: it was not suppressed, and the
\* entry is gone
C20_Witness ==
  /\ last.op = "event" /\ last.method = <<"thread", "live_detached">>
  /\ last.window = "expired"
  /\ ~last.suppressed
  /\ ignoreDetachedEventsUntil[SelectedKey] = 0
  /\ now > SELF_DETACH_IGNORE_WINDOW_MS

\* the self-detach entry of every key the job just done issued an unsubscribe
\* call for was set by that job, to the current time plus the window
EntryForEveryUnsubscribe ==
  \A n \in DOMAIN calls'.unsubscribe :
    ignoreDetachedEventsUntil'[calls'.unsubscribe[n]] =
      now + SELF_DETACH_IGNORE_WINDOW_MS

\* C21: every unsubscribe call the coordinator issues for a key K (self-dedup,
\* cleanup of a superseded attempt, selection change, blur or hide, teardown)
\* comes with a self-detach entry for K created by the same job, so that the
\* detached event it causes is recognised as self-triggered.
C21_EntryBeforeUnsubscribe == [][EntryForEveryUnsubscribe]_vars

\* the job just done: the unsubscribe call of a discarded unsubscribeByKey
\* (selection change, blur, hide or teardown) fulfilled or rejected
DiscardedUnsubscribeSettled == last'.op = "unsubscribed"

\* the job left every ref and every attempt as it was and issued no call
NothingTouched ==
  /\ connectionState' = connectionState
  /\ activeSubscriptionKey' = activeSubscriptionKey
  /\ desiredSubscriptionKey' = desiredSubscriptionKey
  /\ ignoreDetachedEventsUntil' = ignoreDetachedEventsUntil
  /\ inFlightReconnect' = inFlightReconnect
  /\ reconnectSequence' = reconnectSequence
  /\ attempts' = attempts
  /\ calls' = NoCalls

\* C22: unsubscribe failures are swallowed. When the self-dedup unsubscribe of
\* an attempt settles, rejected or not, the attempt issues its subscribe call,
\* and it resolves true when that call resolves with its sequence still
\* current; when the cleanup unsubscribe of a superseded attempt settles,
\* rejected or not, the attempt resolves false; a handler that discards an
\* unsubscribe (selection change, blur, hide, teardown) has cleared the active
\* key, and when that unsubscribe settles, rejected or not, no ref and no
\* attempt changes and no call is issued.
C22_UnsubscribeFailuresSwallowed ==
  [][/\ (last'.op = "resume" /\ last'.method = <<"dedupeUnsubscribe">>) =>
          /\ calls' = [NoCalls EXCEPT !.subscribe = <<Resumed.key>>]
          /\ last'.settled = <<>>
          /\ last'.attempt \in DOMAIN attempts'
          /\ attempts'[last'.attempt].pc = "subscribe"
     /\ (SubscribeResolved /\ Resumed.sequence = reconnectSequence) =>
          /\ Len(last'.settled) = 1
          /\ last'.settled[1].result = "true"
     /\ (last'.op = "resume" /\ last'.method = <<"cleanupUnsubscribe">>) =>
          /\ Len(last'.settled) = 1
          /\ last'.settled[1].result = "false"
          /\ calls' = NoCalls
          /\ connectionState' = connectionState
          /\ activeSubscriptionKey' = activeSubscriptionKey
     /\ (~DiscardedUnsubscribeSettled /\ unsubscribing' # unsubscribing) =>
          /\ last'.op \in {"mount", "rerender", "blur", "hidden", "unmount"}
          /\ activeSubscriptionKey' = NoKey
     /\ DiscardedUnsubscribeSettled => NothingTouched]_vars

\* the unsubscribe discarded by a blur rejected while an attempt whose
\* self-dedup unsubscribe had rejected awaits its subscribe call
C22_Witness ==
  /\ last.op = "unsubscribed" /\ ~last.ok
  /\ activeSubscriptionKey = NoKey
  /\ desiredSubscriptionKey = NoKey
  /\ \E i \in DOMAIN attempts :
       /\ attempts[i].pc = "subscribe"
       /\ attempts[i].failed
       /\ attempts[i].unsubscribes = 1
       /\ attempts[i].key = keyForThread(last.workspaceId, last.threadId)

\* the job just done: the refresh call of an attempt rejected
RefreshRejected ==
  /\ last'.op = "resume"
  /\ last'.method = <<"refresh">>
  /\ ~last'.ok

\* refresh is called once, for attempts started with runResume only
RefreshOnlyWithRunResume ==
  /\ \A i \in DOMAIN attempts :
       /\ attempts[i].refreshes = (IF attempts[i].runResume /\ attempts[i].pc # "reconnectWorkspace"
                                   THEN 1 ELSE 0)
       /\ attempts[i].pc = "refresh" => attempts[i].runResume
  /\ \A n \in DOMAIN last.settled :
       ~last.settled[n].runResume => last.settled[n].refreshes = 0
  /\ \A n \in DOMAIN calls.refresh :
       \E i \in DOMAIN attempts :
          /\ attempts[i].key = calls.refresh[n]
          /\ attempts[i].runResume
          /\ attempts[i].pc = "refresh"

\* C23: when the refresh call of an attempt (started with runResume) rejects,
\* the attempt resolves false without having issued a subscribe or an
\* unsubscribe call, the active key is left as it was, and the connection
\* state is reconciled if the attempt's sequence is the current one and left
\* unchanged otherwise; an attempt started with runResume = false never
\* calls refresh.
C23_RefreshFailure ==
  [][/\ RefreshRejected =>
          /\ Resumed.runResume
          /\ Len(last'.settled) = 1
          /\ last'.settled[1].result = "false"
          /\ last'.settled[1].subscribes = 0
          /\ last'.settled[1].unsubscribes = 0
          /\ last'.attempt \notin DOMAIN attempts'
          /\ calls' = NoCalls
          /\ activeSubscriptionKey' = activeSubscriptionKey
          /\ desiredSubscriptionKey' = desiredSubscriptionKey
          /\ connectionState' = (IF Resumed.sequence = reconnectSequence
                                 THEN Reconciled ELSE connectionState)
     /\ RefreshOnlyWithRunResume']_vars

\* the refresh of a second attempt for the active key rejected: the attempt
\* resolved false and the key is still the active key
C23_Witness ==
  /\ last.op = "resume" /\ last.method = <<"refresh">> /\ ~last.ok
  /\ Len(last.settled) = 1
  /\ last.settled[1].result = "false"
  /\ last.settled[1].sequence = reconnectSequence
  /\ activeSubscriptionKey = last.settled[1].key
  /\ connectionState = Reconciled
  /\ calls = NoCalls

\* the session reconnect is called by a newly started attempt as its first
\* call, with a disconnected active workspace and the collaborator provided
SessionReconnectFirst ==
  calls'.reconnectWorkspace # <<>> =>
    /\ last'.call = "started"
    /\ calls'.reconnectWorkspace = <<attempts'[last'.attempt].workspaceId>>
    /\ activeWorkspace' # <<>>
    /\ ~activeWorkspace'[1].connected
    /\ hasReconnectWorkspace'
    /\ attempts'[last'.attempt].pc = "reconnectWorkspace"
    /\ calls'.refresh = <<>>
    /\ calls'.subscribe = <<>>

\* an attempt that awaits its session reconnect has called nothing else, and
\* one that awaits its refresh has issued no subscribe or unsubscribe call
InOrder ==
  \A i \in DOMAIN attempts :
    /\ attempts[i].sessionReconnects <= 1
    /\ attempts[i].pc = "reconnectWorkspace" =>
         /\ attempts[i].sessionReconnects = 1
         /\ attempts[i].refreshes = 0
         /\ attempts[i].subscribes = 0
         /\ attempts[i].unsubscribes = 0
    /\ attempts[i].pc = "refresh" =>
         /\ attempts[i].subscribes = 0
         /\ attempts[i].unsubscribes = 0

\* when the session reconnect of an attempt with the current sequence
\* resolves, the attempt calls refresh if runResume, else goes on to its
\* unsubscribe or subscribe call
NextAfterSessionReconnect ==
  (/\ last'.op = "resume" /\ last'.ok
   /\ last'.method = <<"reconnectWorkspace">>
   /\ Resumed.sequence = reconnectSequence) =>
     /\ last'.attempt \in DOMAIN attempts'
     /\ IF Resumed.runResume
        THEN /\ calls' = [NoCalls EXCEPT !.refresh = <<Resumed.key>>]
             /\ attempts'[last'.attempt].pc = "refresh"
        ELSE /\ calls'.refresh = <<>>
             /\ attempts'[last'.attempt].pc \in {"dedupeUnsubscribe", "subscribe"}

\* an attempt whose sequence is outdated when its session reconnect or its
\* refresh settles resolves false and calls nothing
StaleEndsAtOnce ==
  (/\ last'.op = "resume"
   /\ last'.method \in {<<"reconnectWorkspace">>, <<"refresh">>}
   /\ Resumed.sequence # reconnectSequence) =>
     /\ EndsFalse
     /\ last'.settled[1].subscribes = 0
     /\ last'.settled[1].unsubscribes = 0
     /\ last'.method = <<"reconnectWorkspace">> => last'.settled[1].refreshes = 0

\* C24: within one attempt the session reconnect (called only with a
\* disconnected active workspace and the collaborator provided) has resolved
\* before refresh is called, and refresh has resolved before the attempt
\* issues an unsubscribe or subscribe call; an attempt whose sequence was
\* outdated while it awaited its session reconnect or its refresh resolves
\* false without any further call.
C24_StepOrder ==
  [][/\ SessionReconnectFirst
     /\ InOrder'
     /\ NextAfterSessionReconnect
     /\ StaleEndsAtOnce]_vars

\* an attempt superseded while it awaited its session reconnect resolved
\* false when that resolved, without a refresh or a subscribe call
C24_Witness ==
  /\ last.op = "resume" /\ last.method = <<"reconnectWorkspace">> /\ last.ok
  /\ Len(last.settled) = 1
  /\ last.settled[1].result = "false"
  /\ last.settled[1].runResume
  /\ last.settled[1].sequence < reconnectSequence
  /\ last.settled[1].sessionReconnects = 1
  /\ last.settled[1].refreshes = 0
  /\ last.settled[1].subscribes = 0
  /\ calls = NoCalls

\* the job just done took an attempt it started or resumed (not one it
\* joined) past its refresh step, to its self-dedup unsubscribe or to its
\* subscribe call
ReachedSubscribeStep ==
  /\ last'.call # "coalesced"
  /\ last'.attempt \in DOMAIN attempts'
  /\ attempts'[last'.attempt].pc \in {"dedupeUnsubscribe", "subscribe"}
  /\ last'.attempt \in DOMAIN attempts =>
       attempts[last'.attempt].pc \in {"reconnectWorkspace", "refresh"}

\* C25: an attempt for key K that reaches its subscribe step while the active
\* key is K records the self-detach entry of K (the current time plus 10 s)
\* and issues one unsubscribe(K), the active key still being K; when that
\* unsubscribe has settled it clears the active key and issues one
\* subscribe(K). When the active key is not K the attempt issues subscribe(K)
\* at once, with no unsubscribe and no entry.
C25_SelfDedup ==
  [][/\ ReachedSubscribeStep =>
          LET a == attempts'[last'.attempt]
          IN IF activeSubscriptionKey = a.key
             THEN /\ a.pc = "dedupeUnsubscribe"
                  /\ ignoreDetachedEventsUntil'[a.key] = now + 10000
                  /\ calls'.unsubscribe = <<a.key>>
                  /\ calls'.subscribe = <<>>
                  /\ a.unsubscribes = 1 /\ a.subscribes = 0
                  /\ activeSubscriptionKey' = a.key
             ELSE /\ a.pc = "subscribe"
                  /\ calls'.subscribe = <<a.key>>
                  /\ calls'.unsubscribe = <<>>
                  /\ a.unsubscribes = 0 /\ a.subscribes = 1
                  /\ ignoreDetachedEventsUntil' = ignoreDetachedEventsUntil
     /\ (last'.op = "resume" /\ last'.method = <<"dedupeUnsubscribe">>) =>
          /\ activeSubscriptionKey' = NoKey
          /\ calls' = [NoCalls EXCEPT !.subscribe = <<Resumed.key>>]
          /\ last'.attempt \in DOMAIN attempts'
          /\ attempts'[last'.attempt].pc = "subscribe"
          /\ attempts'[last'.attempt].subscribes = 1
          /\ attempts'[last'.attempt].unsubscribes = 1
          /\ ignoreDetachedEventsUntil' = ignoreDetachedEventsUntil]_vars

\* the self-dedup unsubscribe of an attempt for the active key has settled:
\* the active key is cleared, the subscribe call issued, the entry recorded
\* at a time later than 0 still in place
C25_Witness ==
  /\ last.op = "resume" /\ last.method = <<"dedupeUnsubscribe">>
  /\ last.attempt \in DOMAIN attempts
  /\ attempts[last.attempt].pc = "subscribe"
  /\ attempts[last.attempt].sequence = reconnectSequence
  /\ calls.subscribe = <<attempts[last.attempt].key>>
  /\ activeSubscriptionKey = NoKey
  /\ now > 0
  /\ ignoreDetachedEventsUntil[attempts[last.attempt].key] = now + 10000

\* the job just done: an event that is not addressed to the selection (no raw
\* method, no workspace or thread selected, another workspace id, or for a
\* method other than codex/connected an extracted thread id that is not the
\* selected one), or one addressed to it with a method the router does not know
UnmatchedEvent ==
  /\ last'.op = "event"
  /\ \/ ~last'.ok
     \/ /\ last'.method \notin {<<"codex", "connected">>,
                                <<"thread", "live_attached">>,
                                <<"thread", "live_detached">>}
        /\ ~LiveSignal

\* C26: an event from another workspace, one that arrives with no workspace
\* or no thread selected, an attached, detached, heartbeat or activity event
\* whose extracted thread id is missing, blank or not the selected one, and
\* an event with an unknown method change neither the connection state, the
\* active key, the desired key, the reconnect sequence nor the self-detach
\* map, start or join no attempt and issue no call.
C26_UnmatchedEventsInert ==
  [][UnmatchedEvent => (NothingTouched /\ last'.call = "none")]_vars

\* an event arrived with no thread selected while an attempt for the key of
\* the previous selection awaits its subscribe call and a self-detach entry
\* for that key exists: nothing changed
C26_Witness ==
  /\ last.op = "event" /\ ~last.ok
  /\ activeThreadId = ""
  /\ activeWorkspace # <<>>
  /\ \E i \in DOMAIN attempts :
       /\ attempts[i].pc = "subscribe"
       /\ ignoreDetachedEventsUntil[attempts[i].key] > 0
  /\ calls = NoCalls

\* the job just done: a codex/connected event for the active workspace with
\* a thread selected
SessionConnectedEvent ==
  /\ last'.op = "event"
  /\ last'.method = <<"codex", "connected">>

\* the job called reconnect for the selected key with runResume = false: the
\* call was rejected (not remote mode), joined the attempt for the key in
\* flight with the current sequence, or started an attempt that calls no
\* refresh; no refresh call was issued
ReconnectWithoutResume ==
  /\ last'.call \in {"started", "coalesced", "rejected"}
  /\ last'.call = "rejected" <=> backendMode # "remote"
  /\ calls'.refresh = <<>>
  /\ last'.call # "rejected" =>
       /\ desiredSubscriptionKey' = SelectedKey
       /\ last'.call = "started" <=> CurrentAttemptsFor(SelectedKey) = {}
  /\ last'.call = "started" =>
       /\ last'.attempt \notin DOMAIN attempts
       /\ attempts'[last'.attempt].key = SelectedKey
       /\ ~attempts'[last'.attempt].runResume
       /\ attempts'[last'.attempt].refreshes = 0
       /\ attempts'[last'.attempt].pc \in {"dedupeUnsubscribe", "subscribe"}
  /\ last'.call = "coalesced" =>
       /\ last'.attempt \in CurrentAttemptsFor(SelectedKey)
       /\ attempts' = attempts
       /\ calls' = NoCalls

\* C27: a codex/connected event for the active workspace with a thread
\* selected calls reconnect for the selected key with runResume = false when
\* the document is visible, focused or not, and issues no refresh call; when
\* the document is not visible it starts no attempt, issues no call and
\* changes no state.
C27_SessionConnected ==
  [][SessionConnectedEvent =>
       IF visible
       THEN ReconnectWithoutResume
       ELSE NothingTouched /\ last'.call = "none"]_vars

\* the event arrived in a visible, unfocused window with no subscription and
\* started an attempt that went straight to its subscribe call
C27_Witness ==
  /\ last.op = "event" /\ last.method = <<"codex", "connected">>
  /\ visible /\ ~focused
  /\ last.call = "started"
  /\ ~attempts[last.attempt].runResume
  /\ attempts[last.attempt].pc = "subscribe"
  /\ calls = [NoCalls EXCEPT !.subscribe = <<SelectedKey>>]
  /\ desiredSubscriptionKey = SelectedKey

\* the job just done: an attached event for the active workspace whose
\* extracted thread id is the selected thread id
AttachedEvent ==
  /\ last'.op = "event"
  /\ last'.method = <<"thread", "live_attached">>

\* C28: an attached event for the active workspace and the selected thread
\* sets the active key to the selected key and the connection state to
\* polling, whatever they were (also from live, in any backend mode, on a
\* disconnected workspace, and when the desired key is null after a blur); it
\* changes neither the desired key nor the reconnect sequence nor the
\* self-detach map, starts or joins no attempt and issues no call.
C28_Attached ==
  [][AttachedEvent =>
       /\ activeSubscriptionKey' = SelectedKey
       /\ connectionState' = "polling"
       /\ desiredSubscriptionKey' = desiredSubscriptionKey
       /\ reconnectSequence' = reconnectSequence
       /\ ignoreDetachedEventsUntil' = ignoreDetachedEventsUntil
       /\ inFlightReconnect' = inFlightReconnect
       /\ attempts' = attempts
       /\ calls' = NoCalls
       /\ last'.call = "none"]_vars

\* after a blur had cleared the desired and the active key, an attached event
\* made the selected key the active key again; the desired key is still null
C28_Witness ==
  /\ last.op = "event" /\ last.method = <<"thread", "live_attached">>
  /\ ~focused
  /\ desiredSubscriptionKey = NoKey
  /\ activeSubscriptionKey = SelectedKey
  /\ connectionState = "polling"
  /\ reconnectSequence > 1
  /\ attempts = <<>>

\* the job just done ran the selection effect: the first commit, or a
\* re-render that changed one of the effect's dependencies
SelectionEffectRan ==
  \/ last'.op = "mount"
  \/ last'.op = "rerender" /\ last'.ok

\* C29: when the selection effect runs while the active key is a key K_old
\* other than the newly computed desired key (which may be null), it clears
\* the active key and issues one unsubscribe(K_old), whose promise it
\* discards without awaiting it, and an attempt it goes on to start for the
\* new key has not got past its refresh call; when the active key is null or
\* is the new desired key the effect issues no unsubscribe and leaves the
\* active key as it is.
C29_StaleSubscription ==
  [][SelectionEffectRan =>
       /\ IF activeSubscriptionKey # NoKey /\ activeSubscriptionKey # NextKey
          THEN /\ activeSubscriptionKey' = NoKey
               /\ calls'.unsubscribe = <<activeSubscriptionKey>>
               /\ unsubscribing' = Append(unsubscribing, activeSubscriptionKey)
          ELSE /\ activeSubscriptionKey' = activeSubscriptionKey
               /\ calls'.unsubscribe = <<>>
               /\ unsubscribing' = unsubscribing
       /\ calls'.subscribe = <<>>
       /\ last'.call = "started" =>
            /\ attempts'[last'.attempt].key = NextKey
            /\ attempts'[last'.attempt].pc \in {"reconnectWorkspace", "refresh"}
            /\ attempts'[last'.attempt].unsubscribes = 0]_vars

\* the selection was removed while a key was subscribed: the active key is
\* cleared, the desired key null, the unsubscribe for the old key issued and
\* not yet settled, no attempt started
C29_Witness ==
  /\ last.op = "rerender" /\ last.ok
  /\ activeThreadId = ""
  /\ desiredSubscriptionKey = NoKey
  /\ activeSubscriptionKey = NoKey
  /\ calls.unsubscribe = <<<<"ws1", "t1">>>>
  /\ unsubscribing = <<<<"ws1", "t1">>>>
  /\ last.call = "none"
  /\ attempts = <<>>

\* the effect stopped after reconciling the connection state under the new
\* props: no attempt started or joined, none of the attempts' calls issued
ReconciledAndStopped ==
  /\ connectionState' = Reconciled'
  /\ last'.call = "none"
  /\ attempts' = attempts
  /\ inFlightReconnect' = inFlightReconnect
  /\ reconnectSequence' = reconnectSequence
  /\ calls'.subscribe = <<>>
  /\ calls'.refresh = <<>>
  /\ calls'.reconnectWorkspace = <<>>

\* the condition of the effect's no-op branch: the active key is the new key,
\* the connection state is not disconnected, the workspace is connected
Satisfied ==
  /\ activeSubscriptionKey = NextKey
  /\ connectionState # "disconnected"
  /\ activeWorkspace'[1].connected

\* the effect called reconnect for the new key
CalledReconnect == last'.call \in {"started", "coalesced"}

\* C30 as stated: when the new desired key is null or the document is not
\* visible the selection effect reconciles the connection state and starts
\* no attempt; otherwise, when the active key is the new desired key, the
\* connection state is not disconnected and the workspace is connected, it
\* issues no call and changes no state; otherwise it calls reconnect for the
\* new desired key.
C30_AsStated ==
  [][SelectionEffectRan =>
       IF NextKey = NoKey \/ ~visible THEN ReconciledAndStopped
       ELSE IF Satisfied THEN NothingTouched /\ last'.call = "none"
       ELSE CalledReconnect]_vars

\* C30: the selection effect first stores the new key (or null) as the
\* desired key. When that key is null or the document is not visible it
\* reconciles the connection state and starts no attempt; otherwise, when the
\* active key is the new key, the connection state is not disconnected and
\* the workspace is connected, it issues no call and changes nothing but the
\* desired key; otherwise it calls reconnect for the new key with runResume =
\* true, which starts an attempt (first call: session reconnect or refresh)
\* unless an attempt for that key with the current sequence is in flight,
\* which it joins without a call.
C30_SelectionOutcome ==
  [][SelectionEffectRan =>
       /\ desiredSubscriptionKey' = NextKey
       /\ IF NextKey = NoKey \/ ~visible THEN ReconciledAndStopped
          ELSE IF Satisfied
          THEN /\ last'.call = "none"
               /\ calls' = NoCalls
               /\ connectionState' = connectionState
               /\ activeSubscriptionKey' = activeSubscriptionKey
               /\ ignoreDetachedEventsUntil' = ignoreDetachedEventsUntil
               /\ inFlightReconnect' = inFlightReconnect
               /\ reconnectSequence' = reconnectSequence
               /\ attempts' = attempts
          ELSE /\ CalledReconnect
               /\ last'.call = "started" <=> CurrentAttemptsFor(NextKey) = {}
               /\ last'.call = "started" =>
                    /\ last'.attempt \notin DOMAIN attempts
                    /\ attempts'[last'.attempt].key = NextKey
                    /\ attempts'[last'.attempt].runResume
                    /\ attempts'[last'.attempt].pc \in {"reconnectWorkspace", "refresh"}
               /\ last'.call = "coalesced" =>
                    /\ last'.attempt \in CurrentAttemptsFor(NextKey)
                    /\ attempts' = attempts
                    /\ calls'.refresh = <<>>
                    /\ calls'.subscribe = <<>>]_vars

\* the effect ran over a subscribed key and a connected workspace and took
\* its no-op branch; the desired key, null before, is now the selected key
C30_Witness ==
  /\ last.op = "rerender" /\ last.ok
  /\ last.call = "none"
  /\ visible
  /\ backendMode = "remote"
  /\ WorkspaceConnected(Props)
  /\ activeSubscriptionKey = SelectedKey
  /\ desiredSubscriptionKey = SelectedKey
  /\ connectionState = "polling"
  /\ calls = NoCalls
  /\ reconnectSequence > 1

\* the job just done: the window gained focus, or the document became visible
ForegroundEvent == last'.op \in {"focus", "shown"}

\* a focus event that found the document hidden
FocusWhileHidden == last'.op = "focus" /\ ~visible

\* the job made a reconnect call that passed the precondition check
ReconnectAccepted == last'.call \in {"started", "coalesced"}

\* C31 as stated: on focus gained or on the document becoming visible the
\* coordinator calls reconnect with runResume = true for the current desired
\* key, and does so only if the desired key is non-null; a focus event
\* received while the document is not visible starts no attempt.
C31_AsStated ==
  [][ForegroundEvent =>
       IF FocusWhileHidden
       THEN last'.call = "none" /\ attempts' = attempts
       ELSE /\ ReconnectAccepted <=> desiredSubscriptionKey # NoKey
            /\ ReconnectAccepted =>
                 /\ attempts'[last'.attempt].key = desiredSubscriptionKey
                 /\ attempts'[last'.attempt].runResume]_vars

\* C31: on focus gained while the document is visible, or on the document
\* becoming visible, the coordinator calls reconnect with runResume = true
\* for the selected workspace and thread, exactly when both are selected,
\* whatever the desired key is (a blur or hide has set it to null, an explicit
\* reconnect call may have set it to another key). In remote mode the call
\* makes the selected key the desired key and starts an attempt with
\* runResume = true, or joins the attempt for that key in flight with the
\* current sequence; in any other mode it is rejected and only reconciles the
\* connection state. A focus event received while the document is not
\* visible calls nothing and changes nothing.
C31_Foreground ==
  [][ForegroundEvent =>
       IF FocusWhileHidden THEN NothingTouched /\ last'.call = "none"
       ELSE IF WorkspaceId(Props) = "" \/ activeThreadId = ""
       THEN NothingTouched /\ last'.call = "none"
       ELSE IF backendMode # "remote"
       THEN /\ last'.call = "rejected"
            /\ connectionState' = Reconciled
            /\ attempts' = attempts
            /\ calls' = NoCalls
            /\ desiredSubscriptionKey' = desiredSubscriptionKey
       ELSE /\ StartedOrJoined
            /\ desiredSubscriptionKey' = SelectedKey]_vars

\* a focus event after a blur: the desired key was null, and the attempt for
\* the selected key was started with its refresh call
C31_Witness ==
  /\ last.op = "focus"
  /\ visible /\ focused
  /\ last.call = "started"
  /\ reconnectSequence = 3
  /\ DOMAIN attempts = {3}
  /\ attempts[3].key = SelectedKey
  /\ attempts[3].runResume
  /\ attempts[3].pc = "refresh"
  /\ desiredSubscriptionKey = SelectedKey
  /\ calls.refresh = <<SelectedKey>>

\* the job just done: the window lost focus, or the document became hidden
BlurOrHide == last'.op \in {"blur", "hidden"}

\* what a blur or hide does to the sequence and the keys
CancelsAndReleases ==
  /\ reconnectSequence' = reconnectSequence + 1
  /\ desiredSubscriptionKey' = NoKey
  /\ activeSubscriptionKey' = NoKey
  /\ calls'.unsubscribe =
       (IF activeSubscriptionKey # NoKey THEN <<activeSubscriptionKey>> ELSE <<>>)

\* C32: every blur or hide event, in every state, increments the reconnect
\* sequence, sets the desired key to null and, if an active key was set,
\* clears it and issues one unsubscribe for it; after the event the
\* connection state is the reconciled value (remote mode: polling when the
\* workspace is connected, else disconnected), whether or not an active key
\* existed.
C32_BlurReconciles ==
  [][BlurOrHide => CancelsAndReleases /\ connectionState' = Reconciled]_vars

\* the attempts in flight after the job whose sequence is the current one
CurrentAttempts ==
  {i \in DOMAIN attempts' : attempts'[i].sequence = reconnectSequence'}

\* no two attempts in flight hold the same sequence and none is ahead of the
\* reconnect sequence
SequencesDistinct ==
  \A i, j \in DOMAIN attempts' :
     /\ attempts'[i].sequence = attempts'[j].sequence => i = j
     /\ attempts'[i].sequence <= reconnectSequence'

\* an attempt just started took a sequence above that of every attempt in
\* flight and above the reconnect sequence before the job
StartedAbove ==
  last'.call = "started" =>
     /\ attempts'[last'.attempt].sequence > reconnectSequence
     /\ \A i \in DOMAIN attempts :
          attempts[i].sequence < attempts'[last'.attempt].sequence

\* the in-flight record names an attempt that has not settled, with its key
\* and its sequence
RecordNamesUnsettled ==
  inFlightReconnect' # <<>> =>
     /\ inFlightReconnect'[1].promise \in DOMAIN attempts'
     /\ attempts'[inFlightReconnect'[1].promise].key = inFlightReconnect'[1].key
     /\ attempts'[inFlightReconnect'[1].promise].sequence =
          inFlightReconnect'[1].sequence

\* C33: the sequences of the attempts are pairwise distinct (each attempt
\* takes a sequence above every earlier one), so at most one attempt in
\* flight has the current reconnect sequence at any time; immediately after a
\* blur or hide no attempt in flight is current; and the in-flight record,
\* when non-null, refers to an attempt whose promise has not yet settled.
C33_AttemptSequences ==
  [][/\ SequencesDistinct
     /\ StartedAbove
     /\ Cardinality(CurrentAttempts) <= 1
     /\ BlurOrHide => CurrentAttempts = {}
     /\ RecordNamesUnsettled]_vars

\* two attempts in flight, the older one superseded by the newer one, which
\* the in-flight record names; a blur then left no attempt current
C33_Witness ==
  /\ last.op = "blur"
  /\ DOMAIN attempts = {1, 2}
  /\ attempts[1].key # attempts[2].key
  /\ reconnectSequence = 3
  /\ inFlightReconnect # <<>>
  /\ inFlightReconnect[1].promise = 2
  /\ inFlightReconnect[1].sequence = 2

\* no reconnection attempt is in flight
Quiescent == attempts = <<>>

\* C34: in every quiescent state (no reconnection attempt in flight) the
\* active key is null or equal to the desired key: after any sequence of
\* selection changes, blur and focus events, backend events and reconnect
\* calls the coordinator never rests believing it is subscribed to a key it
\* does not desire.
C34_ActiveIsDesired ==
  Quiescent => activeSubscriptionKey \in {NoKey, desiredSubscriptionKey}

\* no attempt is in flight and every discarded unsubscribe has settled
AllSettled == attempts = <<>> /\ unsubscribing = <<>>

\* C35: no leaked subscription. With the backend as the set of keys with a
\* completed subscribe not followed by an unsubscribe, in every quiescent
\* state (no attempt in flight, every issued call resolved successfully, no
\* detach initiated by the backend) that set is empty or holds the active key
\* alone; in particular it is empty when the last trigger was a blur, a
\* change to no selection or teardown (each of which leaves the desired key
\* null).
C35_NoLeakedSubscription ==
  AllSettled =>
     /\ subscribed \subseteq {activeSubscriptionKey}
     /\ desiredSubscriptionKey = NoKey => subscribed = {}

\* the job just done: a detached notification for the selected key reached
\* the listener, sent because the backend dropped the subscription on its own
BackendDetachedEvent == DetachedEvent /\ last'.origin = "backend"

\* C36: a detached event for the selected key that the backend initiated (not
\* caused by an unsubscribe of the coordinator), arriving while the document
\* is visible and the window focused, always clears the active key and
\* starts or joins a reconnection attempt; it is never swallowed by a
\* self-detach entry left behind by an earlier self-dedup unsubscribe whose
\* own detached notification never arrived (for example because that
\* unsubscribe failed).
C36_BackendDetachReconnects ==
  [][(BackendDetachedEvent /\ visible /\ focused) =>
        /\ ~last'.suppressed
        /\ activeSubscriptionKey' = NoKey
        /\ StartedOrJoined]_vars

\* the job just done: the subscribe call of a stale attempt resolved and the
\* attempt issued its cleanup unsubscribe
CleanupIssued ==
  /\ SubscribeResolved
  /\ last'.attempt \in DOMAIN attempts'
  /\ attempts'[last'.attempt].pc = "cleanupUnsubscribe"
  /\ calls'.unsubscribe = <<Resumed.key>>

\* the job just done made key the active key
BecameActive(key) ==
  activeSubscriptionKey' = key /\ activeSubscriptionKey # key

\* the job just done: an attached event for the selected key, or the
\* subscribe call of an attempt for key resolved
SubscribeOrAttached(key) ==
  \/ /\ last'.op = "event"
     /\ last'.method = <<"thread", "live_attached">>
     /\ key = SelectedKey
  \/ SubscribeResolved /\ Resumed.key = key

\* C37: whenever a stale attempt issues its cleanup unsubscribe for key K
\* (its sequence outdated and the desired key not K once its subscribe call
\* has resolved), the active key is not K at that point, and it does not
\* become K afterwards except by a later subscribe or attached event for K;
\* this also when an attached event for K was delivered between the blur or
\* selection change and the resolution of the subscribe call.
C37_CleanupLeavesInactive ==
  [][/\ CleanupIssued =>
          /\ Resumed.sequence # reconnectSequence
          /\ desiredSubscriptionKey # Resumed.key
          /\ activeSubscriptionKey' # Resumed.key
     /\ \A key \in AllKeys : BecameActive(key) => SubscribeOrAttached(key)]_vars

\* the job just done started a reconnect attempt
AttemptStarted ==
  /\ last'.call = "started"
  /\ last'.attempt \notin DOMAIN attempts
  /\ last'.attempt \in DOMAIN attempts'

\* the job just done is one of the external triggers: a selection or mode
\* change, a focus or visible event, a session-reconnected event, an explicit
\* reconnect call, or a detached event the coordinator's own unsubscribes did
\* not cause
ExternalTrigger ==
  \/ last'.op \in {"mount", "rerender", "focus", "shown", "reconnect"}
  \/ last'.op = "event" /\ last'.method = <<"codex", "connected">>
  \/ BackendDetachedEvent

\* the job just done: a resumed attempt issued its subscribe call
SubscribeIssued ==
  /\ last'.op = "resume"
  /\ last'.attempt \in DOMAIN attempts'
  /\ attempts'[last'.attempt].subscribes = Resumed.subscribes + 1

\* C38: no reconnect storm: the subscribe calls issued are at most as many as
\* the external triggers that start an attempt (every attempt is started by
\* one external trigger and issues at most one subscribe call), and a
\* detached notification produced by the coordinator's own unsubscribe never
\* leads to a further subscribe call (it starts no attempt).
C38_NoReconnectStorm ==
  [][/\ AttemptStarted => ExternalTrigger
     /\ SubscribeIssued => Resumed.subscribes = 0
     /\ (last'.op = "event" /\ last'.origin = "self") => ~AttemptStarted]_vars

\* the collaborator calls an attempt has made are within one session
\* reconnect, one refresh, one subscribe and two unsubscribes
CallsWithinLimits(a) ==
  /\ a.sessionReconnects <= 1
  /\ a.refreshes <= 1
  /\ a.subscribes <= 1
  /\ a.unsubscribes <= 2

\* the promise of attempt i is pending
Pending(i) == i \in DOMAIN attempts

\* C39: provided every collaborator call eventually settles, every reconnect
\* promise eventually resolves; an attempt makes at most one session
\* reconnect call, one refresh call, one subscribe call and two unsubscribe
\* calls; and once its promise has settled the in-flight record does not
\* refer to it.
C39_AttemptsTerminate ==
  /\ \A i \in 1..MaxSequenceOneKey : Pending(i) ~> ~Pending(i)
  /\ [](\A i \in DOMAIN attempts : CallsWithinLimits(attempts[i]))
  /\ [](\A n \in DOMAIN last.settled :
          /\ CallsWithinLimits(last.settled[n])
          /\ inFlightReconnect # <<>> =>
               inFlightReconnect[1].promise # last.settled[n].sequence)
  /\ [](inFlightReconnect # <<>> => Pending(inFlightReconnect[1].promise))

\* an attempt that made a session reconnect, a refresh, a subscribe and two
\* unsubscribe calls has just settled while its successor is on record
C39_Witness ==
  /\ \E n \in DOMAIN last.settled :
       /\ last.settled[n].sessionReconnects = 1
       /\ last.settled[n].refreshes = 1
       /\ last.settled[n].subscribes = 1
       /\ last.settled[n].unsubscribes = 2
  /\ inFlightReconnect # <<>>

\* nothing is left to happen: no attempt in flight and no unsubscribe call
\* pending, the hook mounted with the document visible and focused
AtRestInForeground ==
  /\ mounted = "yes"
  /\ visible /\ focused
  /\ attempts = <<>>
  /\ unsubscribing = <<>>

\* C40: in remote mode with a connected workspace and a selected key K, once
\* the UI has become visible and focused after any history, with no further
\* trigger or backend detach and every collaborator call succeeding, the
\* coordinator comes to rest with no attempt in flight, the active key and
\* the desired key both K and the connection state polling or live: a state
\* at rest in the foreground, where nothing more will happen, is such a state.
C40_Converges ==
  AtRestInForeground =>
    /\ SelectedKey # NoKey
    /\ activeSubscriptionKey = SelectedKey
    /\ desiredSubscriptionKey = SelectedKey
    /\ connectionState \in {"polling", "live"}

====
